---- MODULE Spec2Model ----
(***************************************************************************)
(* Backtesting simulator of BitcoinPredictor                               *)
(* (server/services/backtesting-engine.ts, BacktestingEngine).             *)
(*                                                                         *)
(* One run of runBacktest is a state machine: StartRun fetches the         *)
(* candles and applies the minimum-data check, Step processes one candle   *)
(* (exit checks, entry gating, equity/drawdown update, equity sample),     *)
(* Finish force-closes what is left, aggregates the statistics and stores  *)
(* the result.                                                             *)
(*                                                                         *)
(* JavaScript numbers are modelled as exact rationals extended with the    *)
(* IEEE special values NaN, +Infinity and -Infinity, so that 0/0, x/0 and  *)
(* Math.max() of nothing behave as they do in the program.                 *)
(* Candle timestamps are candle indices (one interval apart).              *)
(***************************************************************************)
EXTENDS Integers, Sequences, FiniteSets, TLC

(***************************************************************************)
(* Numbers                                                                 *)
(***************************************************************************)
RECURSIVE Gcd(_, _)
Gcd(a, b) == IF b = 0 THEN a ELSE Gcd(b, a % b)

AbsInt(n) == IF n < 0 THEN -n ELSE n

Range(xs) == { xs[x] : x \in 1..Len(xs) }

NaN == [k |-> "nan", n |-> 0, d |-> 1]

PosInf == [k |-> "inf", n |-> 1, d |-> 1]

NegInf == [k |-> "inf", n |-> -1, d |-> 1]

\* the rational n/d (d # 0) in lowest terms with a positive denominator
Rat(n, d) ==
    LET g == Gcd(AbsInt(n), AbsInt(d))
        s == IF d < 0 THEN -1 ELSE 1
    IN  [k |-> "fin", n |-> (s * n) \div g, d |-> (s * d) \div g]

Num(n) == [k |-> "fin", n |-> n, d |-> 1]

Zero == Num(0)

IsFinite(a) == a.k = "fin"

IsNaN(a) == a.k = "nan"

\* -1, 0 or 1 (0 for NaN as well)
Sign(a) == IF a.n > 0 THEN 1 ELSE IF a.n < 0 THEN -1 ELSE 0

FNeg(a) == [a EXCEPT !.n = -a.n]

FAdd(a, b) ==
    IF IsNaN(a) \/ IsNaN(b) THEN NaN
    ELSE IF a.k = "inf" /\ b.k = "inf" THEN (IF a.n = b.n THEN a ELSE NaN)
    ELSE IF a.k = "inf" THEN a
    ELSE IF b.k = "inf" THEN b
    ELSE LET g == Gcd(a.d, b.d)
         IN  Rat(a.n * (b.d \div g) + b.n * (a.d \div g), (a.d \div g) * b.d)

FSub(a, b) == FAdd(a, FNeg(b))

FMul(a, b) ==
    IF IsNaN(a) \/ IsNaN(b) THEN NaN
    ELSE IF a.k = "inf" \/ b.k = "inf"
         THEN (IF Sign(a) * Sign(b) = 0 THEN NaN
               ELSE IF Sign(a) * Sign(b) > 0 THEN PosInf ELSE NegInf)
    ELSE LET g1 == Gcd(AbsInt(a.n), b.d)
             g2 == Gcd(AbsInt(b.n), a.d)
         IN  Rat((a.n \div g1) * (b.n \div g2), (a.d \div g2) * (b.d \div g1))

FDiv(a, b) ==
    IF IsNaN(a) \/ IsNaN(b) THEN NaN
    ELSE IF b.k = "inf" THEN (IF a.k = "inf" THEN NaN ELSE Zero)
    ELSE IF b.n = 0
         THEN (IF Sign(a) = 0 THEN NaN
               ELSE IF Sign(a) > 0 THEN PosInf ELSE NegInf)
    ELSE IF a.k = "inf"
         THEN (IF Sign(a) * Sign(b) > 0 THEN PosInf ELSE NegInf)
    ELSE FMul(a, Rat(b.d, b.n))

\* a < b; every comparison with NaN is false
FLt(a, b) ==
    IF IsNaN(a) \/ IsNaN(b) THEN FALSE
    ELSE IF a.k = "inf" THEN a.n < 0 /\ ~(b.k = "inf" /\ b.n < 0)
    ELSE IF b.k = "inf" THEN b.n > 0
    ELSE LET g == Gcd(a.d, b.d)
         IN  a.n * (b.d \div g) < b.n * (a.d \div g)

FGt(a, b) == FLt(b, a)

FLe(a, b) == ~IsNaN(a) /\ ~IsNaN(b) /\ ~FLt(b, a)

FGe(a, b) == FLe(b, a)

\* Math.abs
FAbs(a) == IF a.n < 0 THEN FNeg(a) ELSE a

\* Math.max(...xs): -Infinity for no arguments, NaN if any argument is NaN
RECURSIVE MathMax(_)
MathMax(xs) ==
    IF Len(xs) = 0 THEN NegInf
    ELSE LET m == MathMax(Tail(xs))
             x == Head(xs)
         IN  IF IsNaN(x) \/ IsNaN(m) THEN NaN
             ELSE IF FGt(x, m) THEN x ELSE m

\* xs.reduce((sum, x) => sum + x, 0)
RECURSIVE SumSeq(_)
SumSeq(xs) ==
    IF Len(xs) = 0 THEN Zero
    ELSE FAdd(SumSeq(SubSeq(xs, 1, Len(xs) - 1)), xs[Len(xs)])

(***************************************************************************)
(* Program constants and the sets the inputs are drawn from                *)
(***************************************************************************)
\* first candle index the loop processes (indicator lookback)
LookBack == 200

\* minRequiredDataPoints
MinRequired == 250

\* pre-analysis periods getHistoricalData asks for and the generator adds
PreAnalysis == 300

\* the equity curve is sampled every SampleEvery candles
SampleEvery == 24

\* threshold of shouldEnterTradeFromSignal, in percent (0.65)
EntryThreshold == 65

\* hours per year used to annualise the Sharpe ratio (365 * 24)
PeriodsPerYear == 8760

\* entry signals arrive only during the last ActiveSteps candles of a run
ActiveSteps == 3

\* candle closes
Prices == {8, 10, 16}

\* candles in storage for the symbol and timeframe
StoredCounts == {0, 300}

\* endDate - startDate in half intervals
Spans2 == {-104, 0}

\* weight vectors are in hundredths; the weights a TradingEngine starts with
DefaultWeights == [momentum |-> 35, volume |-> 30, trend |-> 18, volatility |-> 17]

\* no weight vector (nothing scored yet)
NoWeights == [momentum |-> 0, volume |-> 0, trend |-> 0, volatility |-> 0]

\* the strategy of the runs explored in full
RunStrategy == [momentum |-> 40, volume |-> 30, trend |-> 20, volatility |-> 10]

\* run configurations (BacktestParams without symbol and dates)
ParamSets ==
    { [initialCapital |-> 100, riskPerTrade |-> 10, maxPositions |-> mp,
       stopLossPercent |-> 10, takeProfitPercent |-> 20,
       strategy |-> RunStrategy] : mp \in {1, 2} }

NoSignal ==
    [signalType |-> "NONE", isActive |-> FALSE, confidence |-> 0,
     stopLoss |-> 0, takeProfit |-> 0]

\* what generateTradingSignal can hand back: null or a TradingSignal.
\* isActive FALSE stands for false, null and a missing field alike, the
\* confidence is in percent; a LONG signal has its stop below its target,
\* a SHORT signal above.
TradingSignal(t, a, c) ==
    [signalType |-> t, isActive |-> a, confidence |-> c,
     stopLoss |-> IF t = "LONG" THEN 9 ELSE 12,
     takeProfit |-> IF t = "LONG" THEN 12 ELSE 9]

Signals ==
    { NoSignal,
      TradingSignal("LONG", TRUE, 70), TradingSignal("SHORT", TRUE, 65),
      TradingSignal("LONG", FALSE, 70), TradingSignal("SHORT", TRUE, 64) }

(***************************************************************************)
(* Pure functions of BacktestingEngine                                     *)
(***************************************************************************)
calculatePositionPnL_longOnly(position, currentPrice) ==
    FMul(Num(currentPrice - position.entryPrice), position.quantity)

calculatePositionPnL(position, currentPrice) ==
    IF position.side = "LONG"
    THEN FMul(Num(currentPrice - position.entryPrice), position.quantity)
    ELSE FMul(Num(position.entryPrice - currentPrice), position.quantity)

RECURSIVE calculateUnrealizedPnL(_, _)
calculateUnrealizedPnL(positions, currentPrice) ==
    IF Len(positions) = 0 THEN Zero
    ELSE FAdd(calculateUnrealizedPnL(SubSeq(positions, 1, Len(positions) - 1),
                                     currentPrice),
              calculatePositionPnL(positions[Len(positions)], currentPrice))

NoExit == [exitPrice |-> 0, pnl |-> Zero, reason |-> "NONE"]

checkExitConditions_strict(position, currentCandle) ==
    LET currentPrice == currentCandle.close
    IN  IF position.side = "LONG"
        THEN IF currentPrice < position.stopLoss
             THEN [exitPrice |-> position.stopLoss,
                   pnl |-> FMul(Num(position.stopLoss - position.entryPrice),
                                position.quantity),
                   reason |-> "STOP_LOSS"]
             ELSE IF currentPrice > position.takeProfit
             THEN [exitPrice |-> position.takeProfit,
                   pnl |-> FMul(Num(position.takeProfit - position.entryPrice),
                                position.quantity),
                   reason |-> "TAKE_PROFIT"]
             ELSE NoExit
        ELSE IF currentPrice > position.stopLoss
             THEN [exitPrice |-> position.stopLoss,
                   pnl |-> FMul(Num(position.entryPrice - position.stopLoss),
                                position.quantity),
                   reason |-> "STOP_LOSS"]
             ELSE IF currentPrice < position.takeProfit
             THEN [exitPrice |-> position.takeProfit,
                   pnl |-> FMul(Num(position.entryPrice - position.takeProfit),
                                position.quantity),
                   reason |-> "TAKE_PROFIT"]
             ELSE NoExit

checkExitConditions(position, currentCandle) ==
    LET currentPrice == currentCandle.close
    IN  IF position.side = "LONG"
        THEN IF currentPrice <= position.stopLoss
             THEN [exitPrice |-> position.stopLoss,
                   pnl |-> FMul(Num(position.stopLoss - position.entryPrice),
                                position.quantity),
                   reason |-> "STOP_LOSS"]
             ELSE IF currentPrice >= position.takeProfit
             THEN [exitPrice |-> position.takeProfit,
                   pnl |-> FMul(Num(position.takeProfit - position.entryPrice),
                                position.quantity),
                   reason |-> "TAKE_PROFIT"]
             ELSE NoExit
        ELSE IF currentPrice >= position.stopLoss
             THEN [exitPrice |-> position.stopLoss,
                   pnl |-> FMul(Num(position.entryPrice - position.stopLoss),
                                position.quantity),
                   reason |-> "STOP_LOSS"]
             ELSE IF currentPrice <= position.takeProfit
             THEN [exitPrice |-> position.takeProfit,
                   pnl |-> FMul(Num(position.entryPrice - position.takeProfit),
                                position.quantity),
                   reason |-> "TAKE_PROFIT"]
             ELSE NoExit

calculatePositionSize(cap, price, riskPercent, stopLossPercent) ==
    LET riskAmount == FMul(cap, Rat(riskPercent, 100))
        stopLossDistance == FMul(Num(price), Rat(stopLossPercent, 100))
    IN  FDiv(riskAmount, stopLossDistance)

shouldEnterTradeFromSignal(signal) ==
    signal.isActive /\ signal.confidence >= EntryThreshold

\* (pnl / (quantity * entryPrice)) * 100
pnlPercentOf(pnl, position) ==
    FMul(FDiv(pnl, FMul(position.quantity, Num(position.entryPrice))), Num(100))

closeTrade(position, currentCandle, exitResult) ==
    [entryTime |-> position.entryTime,
     exitTime |-> currentCandle.timestamp,
     entryPrice |-> position.entryPrice,
     exitPrice |-> exitResult.exitPrice,
     side |-> position.side,
     quantity |-> position.quantity,
     pnl |-> exitResult.pnl,
     pnlPercent |-> pnlPercentOf(exitResult.pnl, position),
     reason |-> exitResult.reason]

splice_keepsElement(xs, j) == xs

\* openPositions.splice(j, 1)
splice(xs, j) == SubSeq(xs, 1, j - 1) \o SubSeq(xs, j + 1, Len(xs))

\* the exit loop, j running from the last open position down to the first;
\* st carries openPositions, closedTrades, capital and equity
realizePnl_keepsCapital(cap, pnl) == cap

\* capital += exitResult.pnl
realizePnl(cap, pnl) == FAdd(cap, pnl)

RECURSIVE exitLoop(_, _, _)
exitLoop(j, st, currentCandle) ==
    IF j = 0 THEN st
    ELSE LET position == st.openPositions[j]
             exitResult == checkExitConditions(position, currentCandle)
         IN  IF exitResult.reason = "NONE"
             THEN exitLoop(j - 1, st, currentCandle)
             ELSE LET cap == realizePnl(st.capital, exitResult.pnl)
                  IN  exitLoop(j - 1,
                        [openPositions |-> splice(st.openPositions, j),
                         closedTrades |->
                            Append(st.closedTrades,
                                   closeTrade(position, currentCandle, exitResult)),
                         capital |-> cap,
                         equity |->
                            FAdd(cap, calculateUnrealizedPnL(st.openPositions,
                                                             currentCandle.close))],
                        currentCandle)

\* xs.filter(...) for trades, by the sign of the pnl
RECURSIVE filterBySign(_, _)
filterBySign(trades, sgn) ==
    IF Len(trades) = 0 THEN << >>
    ELSE LET rest == filterBySign(Tail(trades), sgn)
         IN  IF Sign(Head(trades).pnl) = sgn /\ ~IsNaN(Head(trades).pnl)
             THEN << Head(trades) >> \o rest
             ELSE rest

\* per-sample returns: equityCurve.map(...).slice(1)
equityReturns(equityCurve) ==
    [x \in 1..(Len(equityCurve) - 1) |->
        FDiv(FSub(equityCurve[x + 1].equity, equityCurve[x].equity),
             equityCurve[x].equity)]

ZeroStats ==
    [totalTrades |-> 0, winningTrades |-> 0, losingTrades |-> 0,
     winRate |-> Zero, avgWin |-> Zero, avgLoss |-> Zero,
     profitFactor |-> Zero, sharpeRatio |-> Zero, maxDrawdown |-> Zero,
     totalReturn |-> Zero, calmarRatio |-> Zero, averageHoldingPeriod |-> Zero]

profitFactorOf_unguarded(totalWin, totalLoss) == FDiv(totalWin, totalLoss)

\* totalLoss > 0 ? totalWin / totalLoss : 0
profitFactorOf(totalWin, totalLoss) ==
    IF FGt(totalLoss, Zero) THEN FDiv(totalWin, totalLoss) ELSE Zero

\* maxDrawdown > 0 ? totalReturn / maxDrawdown : 0
calmarRatioOf(totalReturn, maxDD) ==
    IF FGt(maxDD, Zero) THEN FDiv(totalReturn, maxDD) ELSE Zero

\* The Sharpe ratio is (avgReturn / sqrt(variance)) * sqrt(365 * 24).  Square
\* roots are not rational, so the field sharpeRatio holds s * |s| for the
\* program's value s: it is zero, negative, NaN or infinite exactly when s is.
\* returnStdDev > 0 holds exactly when the variance is > 0.
sharpeRatioOf(avgReturn, variance) ==
    IF FGt(variance, Zero)
    THEN FMul(FDiv(FMul(avgReturn, FAbs(avgReturn)), variance),
              Num(PeriodsPerYear))
    ELSE Zero

aggregateStats(trades, initialCapital, finalCapital, equityCurve) ==
    LET winning == filterBySign(trades, 1)
        losing == filterBySign(trades, -1)
        totalWin == SumSeq([x \in 1..Len(winning) |-> winning[x].pnl])
        totalLoss == FAbs(SumSeq([x \in 1..Len(losing) |-> losing[x].pnl]))
        avgWin == IF Len(winning) > 0 THEN FDiv(totalWin, Num(Len(winning)))
                  ELSE Zero
        avgLoss == IF Len(losing) > 0 THEN FDiv(totalLoss, Num(Len(losing)))
                   ELSE Zero
        totalReturn == FMul(FDiv(FSub(finalCapital, initialCapital),
                                 initialCapital), Num(100))
        maxDD == FMul(MathMax([x \in 1..Len(equityCurve) |->
                                  equityCurve[x].drawdown]), Num(100))
        returns == equityReturns(equityCurve)
        avgReturn == FDiv(SumSeq(returns), Num(Len(returns)))
        variance == FDiv(SumSeq([x \in 1..Len(returns) |->
                                   FMul(FSub(returns[x], avgReturn),
                                        FSub(returns[x], avgReturn))]),
                         Num(Len(returns)))
        sharpe == sharpeRatioOf(avgReturn, variance)
        holding == SumSeq([x \in 1..Len(trades) |->
                             Num(trades[x].exitTime - trades[x].entryTime)])
    IN  [totalTrades |-> Len(trades),
         winningTrades |-> Len(winning),
         losingTrades |-> Len(losing),
         winRate |-> FMul(FDiv(Num(Len(winning)), Num(Len(trades))), Num(100)),
         avgWin |-> avgWin,
         avgLoss |-> avgLoss,
         profitFactor |-> profitFactorOf(totalWin, totalLoss),
         sharpeRatio |-> sharpe,
         maxDrawdown |-> maxDD,
         totalReturn |-> totalReturn,
         calmarRatio |-> calmarRatioOf(totalReturn, maxDD),
         averageHoldingPeriod |-> FDiv(holding, Num(Len(trades)))]

calculateBacktestStats_noEarlyReturn(trades, initialCapital, finalCapital, equityCurve) ==
    aggregateStats(trades, initialCapital, finalCapital, equityCurve)

calculateBacktestStats(trades, initialCapital, finalCapital, equityCurve) ==
    IF Len(trades) = 0 THEN ZeroStats
    ELSE aggregateStats(trades, initialCapital, finalCapital, equityCurve)

\* Math.ceil((endDate - startDate) / intervalMs), the span given in half intervals
periodCountOf(span2) == -((-span2) \div 2)

\* number of candles generateSyntheticHistoricalData produces: one per interval
\* from startDate - 300 intervals up to and including endDate
syntheticLength(span2) ==
    IF (span2 \div 2) + PreAnalysis + 1 > 0 THEN (span2 \div 2) + PreAnalysis + 1
    ELSE 0

\* candles the date filter keeps: the stored candles are one interval apart
\* and end at endDate, so as many of them as the window has intervals
storedInRange(stored, span2) ==
    IF stored < syntheticLength(span2) THEN stored ELSE syntheticLength(span2)

\* getHistoricalData: stored = candles storage returns, inRange = those of
\* them inside [startDate - 300 intervals, endDate]
getHistoricalData(stored, inRange, span2) ==
    IF /\ stored > 0
       /\ stored >= PreAnalysis + periodCountOf(span2)
       /\ inRange >= MinRequired
    THEN [source |-> "stored", length |-> inRange]
    ELSE [source |-> "synthetic", length |-> syntheticLength(span2)]

(***************************************************************************)
(* State of the engine, of storage and of one run of runBacktest           *)
(***************************************************************************)
VARIABLES
    weights,         \* TradingEngine.weights of the engine's tradingEngine
    scoringWeights,  \* weights read by the latest calculateConfidenceScore of the run
    entryCheck,      \* the latest candle's entry block: "skipped" (slots full),
                     \* "scored", or "caught" (scoring threw, catch block ran)
    lastCall,        \* latest call of a function checked on its own, and its result
    analysisCache,   \* MLPredictor.analysisCache: the prices with an entry
    trace,           \* the candles of the run so far and what scoring them gave
    firstRun,        \* trace, trades and statistics of the run before this one
    pc,              \* "idle", "loop", "done" or "failed" (runBacktest threw)
    storedCandles,   \* candles storage.getPriceData returns
    request,         \* date range asked for: span2 and candles stored inside it
    params,          \* the BacktestParams of the run
    dataSource,      \* "stored" or "synthetic": where historicalData came from
    dataLen,         \* historicalData.length
    error,           \* counts quoted by the insufficient-data error
    i,               \* loop index: next candle to process
    close,           \* close of the candle processed last
    capital, equity, peak, maxDrawdown,
    openPositions, closedTrades, equityCurve,
    stats,           \* BacktestStats of the finished run
    savedResults,    \* number of results handed to storage.insertBacktestResult
    positionManager, \* TradeExecutionEngine.positionManager: the ids in
                     \* openPositions in insertion order, and maxPositions
    storedTrades,    \* MemStorage.trades, indexed by trade id
    inFlight,        \* the calls on the TradeExecutionEngine, each at an await
    hook             \* useWebSocket: its refs, its sockets and its timers

\* state outside runBacktest's shared engine and locals
replayVars == << analysisCache, trace, firstRun >>

liveVars == << positionManager, storedTrades, inFlight, hook >>

auxVars == << lastCall, analysisCache, trace, firstRun, liveVars >>

vars == << weights, scoringWeights, entryCheck, lastCall, analysisCache, trace,
           firstRun, pc, storedCandles, request, params, dataSource, dataLen, error, i,
           close, capital, equity, peak, maxDrawdown, openPositions,
           closedTrades, equityCurve, stats, savedResults, liveVars >>

NoParams ==
    [initialCapital |-> 0, riskPerTrade |-> 0, maxPositions |-> 0,
     stopLossPercent |-> 0, takeProfitPercent |-> 0, strategy |-> NoWeights]

NoCall == [fn |-> "none"]

NoFirstRun == [trace |-> << >>, closedTrades |-> << >>, ran |-> FALSE]

\* calls on the TradeExecutionEngine that may be in flight at once
MaxInFlight == 2

\* nothing called, nothing cached, no run before; a new TradeExecutionEngine
\* as its constructor leaves it, on an empty storage, no call in flight;
\* useWebSocket before its effect ran: the refs as useRef initialised
\* them, no socket created, no timer set
InitAux ==
    /\ lastCall = NoCall
    /\ analysisCache = {}
    /\ trace = << >>
    /\ firstRun = NoFirstRun
    /\ positionManager = [openPositions |-> << >>, maxPositions |-> 3]
    /\ storedTrades = << >>
    /\ inFlight = [c \in 1..MaxInFlight |-> [fn |-> "none", at |-> "idle"]]
    /\ hook = [version |-> 0, ws |-> 0, reconnectAttempts |-> 0,
               reconnectTimeout |-> 0, sockets |-> << >>, timers |-> {},
               timersSet |-> 0, disconnected |-> FALSE, attempts |-> 0]

\* a new BacktestingEngine: its TradingEngine holds the default weights
InitEngine ==
    /\ weights = DefaultWeights
    /\ scoringWeights = NoWeights
    /\ entryCheck = "none"
    /\ InitAux

\* this.weights = { ...this.weights, ...weights }
updateWeights(w, strategy) ==
    [k \in DOMAIN w |-> IF k \in DOMAIN strategy THEN strategy[k] ELSE w[k]]

NoError == [required |-> 0, available |-> 0]

Init ==
    /\ InitEngine
    /\ pc = "idle"
    /\ storedCandles \in StoredCounts
    /\ request = [span2 |-> 0, inRange |-> 0]
    /\ params = NoParams
    /\ dataSource = "none"
    /\ dataLen = 0
    /\ error = NoError
    /\ i = 0
    /\ close = 0
    /\ capital = Zero
    /\ equity = Zero
    /\ peak = Zero
    /\ maxDrawdown = Zero
    /\ openPositions = << >>
    /\ closedTrades = << >>
    /\ equityCurve = << >>
    /\ stats = ZeroStats
    /\ savedResults = 0

\* runBacktest up to the loop: fetch the candles, check the minimum, set up
StartRun(p, span2) ==
    LET inRange == storedInRange(storedCandles, span2)
        historicalData == getHistoricalData(storedCandles, inRange, span2)
    IN  /\ pc = "idle"
        /\ request' = [span2 |-> span2, inRange |-> inRange]
        /\ params' = p
        /\ dataSource' = historicalData.source
        /\ dataLen' = historicalData.length
        /\ IF historicalData.length < MinRequired
           THEN /\ pc' = "failed"
                /\ error' = [required |-> MinRequired,
                             available |-> historicalData.length]
                /\ UNCHANGED << i, capital, equity, peak, weights >>
           ELSE /\ pc' = "loop"
                /\ error' = NoError
                /\ weights' = updateWeights(weights, p.strategy)
                /\ i' = LookBack
                /\ capital' = Num(p.initialCapital)
                /\ equity' = Num(p.initialCapital)
                /\ peak' = Num(p.initialCapital)
        /\ UNCHANGED << storedCandles, close, maxDrawdown, openPositions,
                        closedTrades, equityCurve, stats, savedResults,
                        scoringWeights, entryCheck >>
        /\ UNCHANGED auxVars

\* the position pushed for an accepted signal
newPosition(currentCandle, tradingSignal, positionSize) ==
    [entryTime |-> currentCandle.timestamp,
     entryPrice |-> currentCandle.close,
     side |-> tradingSignal.signalType,
     quantity |-> positionSize,
     stopLoss |-> tradingSignal.stopLoss,
     takeProfit |-> tradingSignal.takeProfit]

hasRoom_offByOne(positions) == Len(positions) <= params.maxPositions

\* openPositions.length < params.maxPositions
hasRoom(positions) == Len(positions) < params.maxPositions

\* openPositions after the entry check of one candle
enterIfSignalled(positions, cap, currentCandle, tradingSignal) ==
    LET positionSize == calculatePositionSize(cap, currentCandle.close,
                            params.riskPerTrade, params.stopLossPercent)
    IN  IF /\ hasRoom(positions)
           /\ tradingSignal.signalType # "NONE"
           /\ shouldEnterTradeFromSignal(tradingSignal)
           /\ FGt(positionSize, Zero)
        THEN Append(positions,
                    newPosition(currentCandle, tradingSignal, positionSize))
        ELSE positions

equityAfter_realizedOnly(cap, positions, currentPrice) == cap

positionsAtEntryCheck_beforeExits(before, afterExits) == before

\* the positions the entry check counts: openPositions once the exit loop
\* has run
positionsAtEntryCheck(before, afterExits) == afterExits

\* equity after the candle's exits and entries
equityAfter(cap, positions, currentPrice) ==
    FAdd(cap, calculateUnrealizedPnL(positions, currentPrice))

sampleDue_everyBar(idx, len) == TRUE

\* i % 24 === 0 || i === historicalData.length - 1
sampleDue(idx, len) == idx % SampleEvery = 0 \/ idx = len - 1

onScoringError_undoesExits(st) ==
    [st EXCEPT !.openPositions = openPositions, !.closedTrades = closedTrades,
               !.capital = capital]

\* the catch block: log and continue; what the exit loop did stays
onScoringError(st) == st

\* One iteration of the candle loop.  c is the candle's close, tradingSignal
\* what the scoring pipeline returns, threw whether that pipeline throws;
\* the pipeline throws only during the last throwSteps candles.
processCandle(c, tradingSignal, threw, throwSteps) ==
    LET currentCandle == [timestamp |-> i, close |-> c]
        st == exitLoop(Len(openPositions),
                       [openPositions |-> openPositions,
                        closedTrades |-> closedTrades,
                        capital |-> capital, equity |-> equity],
                       currentCandle)
        room == hasRoom(positionsAtEntryCheck(openPositions, st.openPositions))
        positions == IF room
                     THEN enterIfSignalled(st.openPositions, st.capital,
                                           currentCandle, tradingSignal)
                     ELSE st.openPositions
        eq == equityAfter(st.capital, positions, c)
        pk == IF FGt(eq, peak) THEN eq ELSE peak
        currentDrawdown == FDiv(FSub(pk, eq), pk)
    IN  /\ pc = "loop"
        /\ i < dataLen
        /\ (threw \/ tradingSignal # NoSignal) => room
        /\ threw => tradingSignal = NoSignal
        /\ tradingSignal # NoSignal => i >= dataLen - ActiveSteps
        /\ threw => i >= dataLen - throwSteps
        /\ i' = i + 1
        /\ close' = c
        /\ entryCheck' = IF threw THEN "caught"
                       ELSE IF room THEN "scored" ELSE "skipped"
        /\ IF threw
           THEN \* catch: continue with the next candle
                /\ openPositions' = onScoringError(st).openPositions
                /\ closedTrades' = onScoringError(st).closedTrades
                /\ capital' = onScoringError(st).capital
                /\ equity' = onScoringError(st).equity
                /\ UNCHANGED << peak, maxDrawdown, equityCurve >>
           ELSE /\ openPositions' = positions
                /\ closedTrades' = st.closedTrades
                /\ capital' = st.capital
                /\ equity' = eq
                /\ peak' = pk
                /\ maxDrawdown' = IF FGt(currentDrawdown, maxDrawdown)
                                  THEN currentDrawdown ELSE maxDrawdown
                /\ equityCurve' =
                     IF sampleDue(i, dataLen)
                     THEN Append(equityCurve,
                                 [time |-> i, equity |-> eq,
                                  drawdown |-> currentDrawdown])
                     ELSE equityCurve
        \* the entry check scores the candle with the engine's weights
        /\ scoringWeights' = IF room THEN weights ELSE scoringWeights
        /\ UNCHANGED << pc, storedCandles, request, params, dataSource,
                        dataLen, error, stats, savedResults, weights >>

Step(c, tradingSignal, threw) ==
    processCandle(c, tradingSignal, threw, ActiveSteps) /\ UNCHANGED auxVars

\* the same iteration, the pipeline free to throw at any candle
StepThrowing(c, tradingSignal, threw) ==
    processCandle(c, tradingSignal, threw, dataLen) /\ UNCHANGED auxVars

\* the trade recorded for a position still open after the last candle
endOfDataTrade(position, finalPrice) ==
    LET pnl == calculatePositionPnL(position, finalPrice.close)
    IN  [entryTime |-> position.entryTime,
         exitTime |-> finalPrice.timestamp,
         entryPrice |-> position.entryPrice,
         exitPrice |-> finalPrice.close,
         side |-> position.side,
         quantity |-> position.quantity,
         pnl |-> pnl,
         pnlPercent |-> pnlPercentOf(pnl, position),
         reason |-> "END_OF_DATA"]

closeRemaining_skipsLast(positions, finalPrice) ==
    [x \in 1..(Len(positions) - 1) |-> endOfDataTrade(positions[x], finalPrice)]

\* for (const position of openPositions) closedTrades.push(...)
closeRemaining(positions, finalPrice) ==
    [x \in 1..Len(positions) |-> endOfDataTrade(positions[x], finalPrice)]

\* runBacktest after the loop: close what is open, aggregate, store
Finish ==
    LET finalPrice == [timestamp |-> dataLen - 1, close |-> close]
        remaining == closeRemaining(openPositions, finalPrice)
        trades == closedTrades \o remaining
        cap == FAdd(capital,
                    SumSeq([x \in 1..Len(remaining) |-> remaining[x].pnl]))
    IN  /\ pc = "loop"
        /\ i = dataLen
        /\ closedTrades' = trades
        /\ capital' = cap
        /\ stats' = calculateBacktestStats(trades, Num(params.initialCapital),
                                           cap, equityCurve)
        /\ savedResults' = savedResults + 1
        /\ pc' = "done"
        /\ UNCHANGED << storedCandles, request, params, dataSource, dataLen,
                        error, i, close, equity, peak, maxDrawdown,
                        openPositions, equityCurve, weights, scoringWeights,
                        entryCheck >>
        /\ UNCHANGED auxVars

Next ==
    \/ \E p \in ParamSets, span2 \in Spans2 : StartRun(p, span2)
    \/ \E c \in Prices, tradingSignal \in Signals, threw \in BOOLEAN :
          Step(c, tradingSignal, threw)
    \/ Finish

Spec == Init /\ [][Next]_vars

\* runs on an empty storage, one position at a time, closes at or below
\* the entry levels
ThrowingParams == { p \in ParamSets : p.maxPositions = 1 }

ThrowingPrices == { c \in Prices : c <= 10 }

InitThrowing == Init /\ storedCandles = 0

NextThrowing ==
    \/ \E p \in ThrowingParams, span2 \in Spans2 : StartRun(p, span2)
    \/ \E c \in ThrowingPrices, tradingSignal \in Signals, threw \in BOOLEAN :
          StepThrowing(c, tradingSignal, threw)
    \/ Finish

\* runs in which any candle's scoring may throw
SpecThrowing == InitThrowing /\ [][NextThrowing]_vars

(***************************************************************************)
(* The exit check on its own: the state of a run right after candle 299    *)
(* opened one position at 100, every close around the two levels tried on  *)
(* the last candle.                                                        *)
(***************************************************************************)
ExitParams ==
    [initialCapital |-> 1000, riskPerTrade |-> 2, maxPositions |-> 2,
     stopLossPercent |-> 2, takeProfitPercent |-> 6, strategy |-> RunStrategy]

ExitCloses == {97, 98, 99, 100, 105, 106, 107}

ExitPositions ==
    { [entryTime |-> 299, entryPrice |-> 100, side |-> sd, quantity |-> q,
       stopLoss |-> sl, takeProfit |-> 204 - sl] :
         sd \in {"LONG", "SHORT"}, q \in {Num(1), Num(10), Rat(5, 2)},
         sl \in {98, 106} }

\* samples of a run whose equity stayed at the initial capital
flatCurve(times, cap) ==
    [x \in 1..Len(times) |->
        [time |-> times[x], equity |-> cap, drawdown |-> Zero]]

InitExit ==
    /\ weights = ExitParams.strategy
    /\ scoringWeights = ExitParams.strategy
    /\ entryCheck = "none"
    /\ InitAux
    /\ pc = "loop"
    /\ storedCandles = 0
    /\ request = [span2 |-> 0, inRange |-> 0]
    /\ params = ExitParams
    /\ dataSource = "synthetic"
    /\ dataLen = 301
    /\ error = NoError
    /\ i = 300
    /\ close = 100
    /\ capital = Num(1000)
    /\ equity = Num(1000)
    /\ peak = Num(1000)
    /\ maxDrawdown = Zero
    /\ \E position \in ExitPositions : openPositions = << position >>
    /\ closedTrades = << >>
    /\ equityCurve = flatCurve(<< 216, 240, 264, 288 >>, Num(1000))
    /\ stats = ZeroStats
    /\ savedResults = 0

NextExit ==
    \/ \E c \in ExitCloses : Step(c, NoSignal, FALSE)
    \/ Finish

SpecExit == InitExit /\ [][NextExit]_vars

(***************************************************************************)
(* The live position update of TradeExecutionEngine next to the backtest   *)
(* exit check: the same positions and prices handed to updatePositions.    *)
(***************************************************************************)
calculatePnL_takeProfitFirst(trade, currentPrice) ==
    LET isLong == trade.side = "LONG"
        priceDiff == IF isLong THEN currentPrice - trade.entryPrice
                     ELSE trade.entryPrice - currentPrice
        reason ==
            IF /\ trade.takeProfit # 0
               /\ \/ isLong /\ currentPrice >= trade.takeProfit
                  \/ ~isLong /\ currentPrice <= trade.takeProfit
            THEN "TAKE_PROFIT"
            ELSE IF /\ trade.stopLoss # 0
                    /\ \/ isLong /\ currentPrice <= trade.stopLoss
                       \/ ~isLong /\ currentPrice >= trade.stopLoss
            THEN "STOP_LOSS"
            ELSE "NONE"
    IN  [currentPrice |-> currentPrice,
         unrealizedPnL |-> FMul(Num(priceDiff), trade.quantity),
         shouldClose |-> reason # "NONE",
         reason |-> reason]

\* TradeExecutionEngine.calculatePnL: the stop-loss is tested first, the
\* take-profit in the else branch; a level of 0 is falsy and skipped
calculatePnL(trade, currentPrice) ==
    LET isLong == trade.side = "LONG"
        priceDiff == IF isLong THEN currentPrice - trade.entryPrice
                     ELSE trade.entryPrice - currentPrice
        reason ==
            IF /\ trade.stopLoss # 0
               /\ \/ isLong /\ currentPrice <= trade.stopLoss
                  \/ ~isLong /\ currentPrice >= trade.stopLoss
            THEN "STOP_LOSS"
            ELSE IF /\ trade.takeProfit # 0
                    /\ \/ isLong /\ currentPrice >= trade.takeProfit
                       \/ ~isLong /\ currentPrice <= trade.takeProfit
            THEN "TAKE_PROFIT"
            ELSE "NONE"
    IN  [currentPrice |-> currentPrice,
         unrealizedPnL |-> FMul(Num(priceDiff), trade.quantity),
         shouldClose |-> reason # "NONE",
         reason |-> reason]

calculateFinalPnL(trade, exitPrice) ==
    IF trade.side = "LONG"
    THEN FMul(Num(exitPrice - trade.entryPrice), trade.quantity)
    ELSE FMul(Num(trade.entryPrice - exitPrice), trade.quantity)

\* updatePositions for one open trade: closePosition at the current price
\* when calculatePnL says so, else the unrealized pnl is stored
updatePositions(trade, currentPrice) ==
    LET pnlUpdate == calculatePnL(trade, currentPrice)
    IN  /\ lastCall' =
              [fn |-> "updatePositions",
               trade |-> trade,
               currentPrice |-> currentPrice,
               reason |-> pnlUpdate.reason,
               status |-> IF pnlUpdate.shouldClose THEN "CLOSED" ELSE "OPEN",
               exitPrice |-> IF pnlUpdate.shouldClose THEN currentPrice ELSE 0,
               pnl |-> IF pnlUpdate.shouldClose
                       THEN calculateFinalPnL(trade, currentPrice)
                       ELSE pnlUpdate.unrealizedPnL]
        /\ UNCHANGED << weights, scoringWeights, entryCheck, pc, storedCandles,
                        request, params, dataSource, dataLen, error, i, close,
                        capital, equity, peak, maxDrawdown, openPositions,
                        closedTrades, equityCurve, stats, savedResults >>
        /\ UNCHANGED << replayVars, liveVars >>

NextStopFirst ==
    \/ NextExit
    \* the live engine holds the position the run holds
    \/ \E x \in 1..Len(openPositions), currentPrice \in ExitCloses :
          pc = "loop" /\ updatePositions(openPositions[x], currentPrice)

SpecStopFirst == InitExit /\ [][NextStopFirst]_vars

(***************************************************************************)
(* The statistics on their own: calculateBacktestStats applied, at the end *)
(* of a run, to every list of up to MaxStatTrades trades and every equity  *)
(* curve of up to MaxSamples samples.                                      *)
(***************************************************************************)
MaxStatTrades == 2

MaxSamples == 3

\* a LONG trade of quantity 1 entered at 10 and left at exitPrice: at the
\* stop 8, at the target 13 or at the end of the data
statTrade(exitPrice, exitTime) ==
    [entryTime |-> 295, exitTime |-> exitTime, entryPrice |-> 10,
     exitPrice |-> exitPrice, side |-> "LONG", quantity |-> Num(1),
     pnl |-> Num(exitPrice - 10),
     pnlPercent |-> Num((exitPrice - 10) * 10),
     reason |-> IF exitPrice < 10 THEN "STOP_LOSS"
                ELSE IF exitPrice > 10 THEN "TAKE_PROFIT" ELSE "END_OF_DATA"]

StatTrades ==
    { statTrade(x, t) : x \in {8, 13}, t \in {299, 300} } \cup {statTrade(10, 300)}

\* the x-th trade was entered at candle 295 + x
timedTrades(trades) ==
    [x \in 1..Len(trades) |-> [trades[x] EXCEPT !.entryTime = 295 + x]]

\* a sample: the equity and the peak tracked when it was taken
StatSamples ==
    { [equity |-> e, peak |-> pk] :
        e \in {Zero, Num(50), Num(100)}, pk \in {Num(100), Num(200)} }

\* the x-th sample is taken at candle 24 * (8 + x)
timedCurve(samples) ==
    [x \in 1..Len(samples) |->
        [time |-> SampleEvery * (8 + x), equity |-> samples[x].equity,
         drawdown |-> FDiv(FSub(samples[x].peak, samples[x].equity),
                           samples[x].peak)]]

InitStats ==
    /\ weights = RunStrategy
    /\ scoringWeights = RunStrategy
    /\ entryCheck = "none"
    /\ InitAux
    /\ pc = "loop"
    /\ storedCandles = 0
    /\ request = [span2 |-> 0, inRange |-> 0]
    /\ params \in { p \in ParamSets : p.maxPositions = 1 }
    /\ dataSource = "synthetic"
    /\ dataLen = 301
    /\ error = NoError
    /\ i = 301
    /\ close = 10
    /\ \E n \in 0..MaxStatTrades :
          \E trades \in [1..n -> StatTrades] : closedTrades = timedTrades(trades)
    /\ capital = FAdd(Num(params.initialCapital),
                      SumSeq([x \in 1..Len(closedTrades) |-> closedTrades[x].pnl]))
    /\ equity = capital
    /\ peak = Num(params.initialCapital)
    /\ maxDrawdown = Zero
    /\ openPositions = << >>
    /\ \E n \in 0..MaxSamples :
          \E samples \in [1..n -> StatSamples] :
              \* the peak never decreases
              /\ \A x \in 1..(n - 1) : FLe(samples[x].peak, samples[x + 1].peak)
              /\ equityCurve = timedCurve(samples)
    /\ stats = ZeroStats
    /\ savedResults = 0

SpecStats == InitStats /\ [][Finish]_vars

(***************************************************************************)
(* TradingEngine on its own: the scoring calls of the live loop            *)
(* (routes.ts) and of the backtest loop, on a price history of n points.   *)
(* Scores and weights are in hundredths, overall is a fraction of 1.  The  *)
(* component scores are inputs: the values the indicator code can yield.   *)
(***************************************************************************)
MIN_DATA_POINTS == 5

MinScorePoints == 10

\* lengths of the price history handed in
PriceCounts == {4, 9, 199, 200}

\* weight vectors that sum to 1
ScoreWeights ==
    { DefaultWeights, RunStrategy,
      [momentum |-> 0, volume |-> 0, trend |-> 0, volatility |-> 100] }

\* rsi > 70 ? 0.8 : rsi < 30 ? 0.2 : 0.5; sma20 > sma50 ? 0.7 : 0.3;
\* recentVolume > avgVolume ? 0.6 : 0.4; calculateVolatility in [0.2, 0.9]
ComponentScores ==
    { [momentum |-> m, trend |-> t, volume |-> v, volatility |-> y] :
        m \in {20, 50, 80}, t \in {30, 70}, v \in {40, 60}, y \in {20, 90} }

\* Math.random() * 0.1 - 0.05, in hundredths
BaseVariations == {-5, 4}

Hundredths(x) == Rat(x, 100)

\* Math.round of a finite number
MathRound(a) == (2 * a.n + a.d) \div (2 * a.d)

\* Math.min(0.95, Math.max(0.05, overall))
clampOverall(overall) ==
    IF FLt(overall, Hundredths(5)) THEN Hundredths(5)
    ELSE IF FGt(overall, Hundredths(95)) THEN Hundredths(95) ELSE overall

weightedSum(scores, w) ==
    Rat(scores.momentum * w.momentum + scores.trend * w.trend
          + scores.volume * w.volume + scores.volatility * w.volatility,
        10000)

\* calculateConfidenceScore on n prices whose indicators score as scores
calculateConfidenceScore(n, scores, w) ==
    IF n < MinScorePoints
    THEN [outcome |-> "returned", overall |-> Hundredths(20),
          momentum |-> 20, volume |-> 20, trend |-> 20, volatility |-> 20]
    ELSE [outcome |-> "returned",
          overall |-> clampOverall(weightedSum(scores, w)),
          momentum |-> scores.momentum, volume |-> scores.volume,
          trend |-> scores.trend, volatility |-> scores.volatility]

enhanceWithML_usesAnalysis(confidence, marketAnalysis) ==
    LET scaled == FMul(confidence.overall,
                       IF marketAnalysis = "cached" THEN Rat(12, 10)
                       ELSE Rat(11, 10))
    IN  [confidence EXCEPT
            !.overall = IF FGt(scaled, Hundredths(95)) THEN Hundredths(95)
                        ELSE scaled]

\* overall: Math.min(0.95, confidence.overall * 1.1); marketAnalysis is not
\* read
enhanceWithML(confidence, marketAnalysis) ==
    LET scaled == FMul(confidence.overall, Rat(11, 10))
    IN  [confidence EXCEPT
            !.overall = IF FGt(scaled, Hundredths(95)) THEN Hundredths(95)
                        ELSE scaled]

NoMarketSignal == [direction |-> "NONE", type |-> "NONE", confidence |-> 0]

\* the MarketSignal generateTradingSignal returns, or null
generateTradingSignal(confidence) ==
    IF FGt(confidence.overall, Hundredths(30))
    THEN [direction |-> "LONG", type |-> "BUY",
          confidence |-> MathRound(FMul(confidence.overall, Num(100)))]
    ELSE IF FLt(confidence.overall, Hundredths(25))
    THEN [direction |-> "SHORT", type |-> "SELL",
          confidence |-> MathRound(FMul(FSub(Num(1), confidence.overall),
                                        Num(100)))]
    ELSE NoMarketSignal

\* rsi: Math.max(10, Math.min(90, 50 + baseVariation * 100))
generateMockIndicators(baseVariation) ==
    [outcome |-> "returned", source |-> "mock",
     rsi |-> IF 50 + baseVariation < 10 THEN 10
             ELSE IF 50 + baseVariation > 90 THEN 90 ELSE 50 + baseVariation]

\* calculateTechnicalIndicators on n price points: below MIN_DATA_POINTS
\* the mock set, else indicators computed with periods cut to n
calculateTechnicalIndicators(n, baseVariation) ==
    IF n < MIN_DATA_POINTS
    THEN generateMockIndicators(baseVariation)
    ELSE [outcome |-> "returned", source |-> "prices", rsi |-> 50]

NoPublished == [longConfidence |-> Zero, shortConfidence |-> Zero]

\* the record routes.ts hands to storage.updateCurrentConfidence
publishedConfidence(confidence) ==
    [longConfidence |-> confidence.overall,
     shortConfidence |-> FSub(Num(1), confidence.overall)]

\* the variables of a run, untouched by the engine's own calls
runVars ==
    << scoringWeights, entryCheck, pc, storedCandles, request, params,
       dataSource, dataLen, error, i, close, capital, equity, peak,
       maxDrawdown, openPositions, closedTrades, equityCurve, stats,
       savedResults >>

\* tradingEngine.updateWeights(w)
SetWeights(w) ==
    /\ weights' = updateWeights(weights, w)
    /\ UNCHANGED auxVars
    /\ UNCHANGED runVars

Indicators(n, baseVariation) ==
    /\ lastCall' = [fn |-> "calculateTechnicalIndicators", n |-> n,
                    indicators |-> calculateTechnicalIndicators(n, baseVariation)]
    /\ UNCHANGED weights
    /\ UNCHANGED << replayVars, liveVars >>
    /\ UNCHANGED runVars

\* calculateConfidenceScore(prices, volumes) with the engine's weights
Score(n, scores) ==
    /\ lastCall' = [fn |-> "calculateConfidenceScore", n |-> n,
                    weights |-> weights, scores |-> scores,
                    scored |-> calculateConfidenceScore(n, scores, weights),
                    confidence |-> calculateConfidenceScore(n, scores, weights),
                    signal |-> NoMarketSignal, published |-> NoPublished]
    /\ UNCHANGED weights
    /\ UNCHANGED << replayVars, liveVars >>
    /\ UNCHANGED runVars

\* the backtest loop: enhanceWithML(confidence, marketAnalysis)
Enhance ==
    /\ lastCall.fn = "calculateConfidenceScore"
    /\ lastCall' = [lastCall EXCEPT !.fn = "enhanceWithML",
                       !.confidence = enhanceWithML(lastCall.scored, "fresh")]
    /\ UNCHANGED weights
    /\ UNCHANGED << replayVars, liveVars >>
    /\ UNCHANGED runVars

\* the live loop: storage.updateCurrentConfidence({...})
Publish ==
    /\ lastCall.fn = "calculateConfidenceScore"
    /\ lastCall' = [lastCall EXCEPT !.fn = "updateCurrentConfidence",
                       !.published = publishedConfidence(lastCall.scored)]
    /\ UNCHANGED weights
    /\ UNCHANGED << replayVars, liveVars >>
    /\ UNCHANGED runVars

\* generateTradingSignal on the confidence at hand: the enhanced one in the
\* backtest loop, the published one in the live loop
Signal ==
    /\ lastCall.fn \in {"enhanceWithML", "updateCurrentConfidence"}
    /\ lastCall' = [lastCall EXCEPT !.fn = "generateTradingSignal",
                       !.signal = generateTradingSignal(lastCall.confidence)]
    /\ UNCHANGED weights
    /\ UNCHANGED << replayVars, liveVars >>
    /\ UNCHANGED runVars

InitScore == Init /\ storedCandles = 0

NextScore ==
    \/ \E w \in ScoreWeights : SetWeights(w)
    \/ \E n \in PriceCounts, baseVariation \in BaseVariations :
          Indicators(n, baseVariation)
    \/ \E n \in PriceCounts, scores \in ComponentScores : Score(n, scores)
    \/ Enhance
    \/ Publish
    \/ Signal

SpecScore == InitScore /\ [][NextScore]_vars

(***************************************************************************)
(* The HTTP routes in front of runBacktest: POST /api/backtest parses the  *)
(* body with backtestParamsSchema, POST /api/backtest/run builds the       *)
(* parameters from the body as it is.                                      *)
(***************************************************************************)
\* backtestParamsSchema: the numeric bounds (percentages are whole numbers
\* here, so min(0.1) and min(0.5) are > 0) and the refinement on the weights
backtestParamsSchema(body) ==
    /\ body.initialCapital > 0
    /\ body.riskPerTrade > 0 /\ body.riskPerTrade <= 10
    /\ body.maxPositions >= 1 /\ body.maxPositions <= 10
    /\ body.stopLossPercent > 0 /\ body.stopLossPercent <= 20
    /\ body.takeProfitPercent >= 1 /\ body.takeProfitPercent <= 50
    /\ \A k \in DOMAIN body.strategy :
          body.strategy[k] >= 0 /\ body.strategy[k] <= 100
    /\ AbsInt(body.strategy.momentum + body.strategy.volume
                + body.strategy.trend + body.strategy.volatility - 100) < 1

\* request bodies: one the schema accepts and four it does not
RouteBodies ==
    LET ok == [initialCapital |-> 100, riskPerTrade |-> 10, maxPositions |-> 1,
               stopLossPercent |-> 10, takeProfitPercent |-> 20,
               strategy |-> RunStrategy]
    IN  { ok,
          [ok EXCEPT !.strategy = [momentum |-> 100, volume |-> 100,
                                   trend |-> 100, volatility |-> 100]],
          [ok EXCEPT !.initialCapital = 0],
          [ok EXCEPT !.riskPerTrade = 20],
          [ok EXCEPT !.maxPositions = 0] }

\* POST /api/backtest: a body the schema refuses is answered 400; a parsed
\* body still carries its dates as strings, and runBacktest's first
\* statement calls toISOString on them: TypeError, answered 500
PostBacktest(body) ==
    /\ pc = "idle"
    /\ params' = body
    /\ pc' = IF backtestParamsSchema(body) THEN "crashed" ELSE "rejected"
    /\ UNCHANGED << weights, scoringWeights, entryCheck, storedCandles,
                    request, dataSource, dataLen, error, i, close, capital,
                    equity, peak, maxDrawdown, openPositions, closedTrades,
                    equityCurve, stats, savedResults >>
    /\ UNCHANGED auxVars

\* POST /api/backtest/run: new Date(startDate), new Date(endDate) and the
\* rest of the body handed to runBacktest unchecked
PostBacktestRun(body, span2) == StartRun(body, span2)

InitRoutes == Init /\ storedCandles = 0

NextRoutes ==
    \/ \E body \in RouteBodies : PostBacktest(body)
    \/ \E body \in RouteBodies : PostBacktestRun(body, 0)
    \/ \E c \in ThrowingPrices, tradingSignal \in Signals, threw \in BOOLEAN :
          Step(c, tradingSignal, threw)
    \/ Finish

SpecRoutes == InitRoutes /\ [][NextRoutes]_vars

(***************************************************************************)
(* Two runBacktest calls on one BacktestingEngine, interleaved at the      *)
(* awaits of the loop.  The variables are those of one run; of the other   *)
(* run only its write to the shared TradingEngine is seen, its positions,  *)
(* capital and equity being locals of its own call.                        *)
(***************************************************************************)
\* the parameter sets of the other run
OtherParams ==
    { [initialCapital |-> 100, riskPerTrade |-> 10, maxPositions |-> 1,
       stopLossPercent |-> 10, takeProfitPercent |-> 20, strategy |-> w] :
          w \in ScoreWeights \ {RunStrategy} }

\* the other run reaches this.tradingEngine.updateWeights(params.strategy)
\* while this run is suspended in its loop
OtherRun(q) ==
    /\ pc = "loop"
    /\ weights' = updateWeights(weights, q.strategy)
    /\ UNCHANGED runVars
    /\ UNCHANGED auxVars

NextConcurrent ==
    \/ \E p \in ThrowingParams, span2 \in Spans2 : StartRun(p, span2)
    \/ \E c \in ThrowingPrices, tradingSignal \in Signals, threw \in BOOLEAN :
          Step(c, tradingSignal, threw)
    \/ Finish
    \/ \E q \in OtherParams : OtherRun(q)

SpecConcurrent == InitThrowing /\ [][NextConcurrent]_vars

(***************************************************************************)
(* One configuration run twice on the same engine against the same stored  *)
(* candles.  Each run is taken up at its last ReplaySteps candles, the     *)
(* earlier ones having opened nothing; a candle is its close and the       *)
(* component scores its price window yields.  The scoring pipeline is      *)
(* computed as the code computes it; the TradingSignal the entry check     *)
(* reads is an input of the first run and, in the second run, the same     *)
(* signal wherever the pipeline returns the same value.                    *)
(***************************************************************************)
ReplaySteps == 2

WindowPoints == 201

TwicePrices == {8, 10}

TwiceScores ==
    { [momentum |-> 80, trend |-> 70, volume |-> 60, volatility |-> 90],
      [momentum |-> 20, trend |-> 30, volume |-> 40, volatility |-> 20] }

TwiceSignals ==
    { NoSignal, TradingSignal("LONG", TRUE, 70), TradingSignal("SHORT", TRUE, 65) }

\* analyzeMarket: the cached analysis when the price has an entry that has
\* not timed out (hit; the timeout is read off the clock), else a fresh one
analyzeMarket(cache, currentPrice, hit) ==
    IF currentPrice \in cache /\ hit THEN "cached" ELSE "fresh"

\* what lines 607-614 compute for a candle
scoringPipeline(scores, w, marketAnalysis) ==
    generateTradingSignal(
        enhanceWithML(calculateConfidenceScore(WindowPoints, scores, w),
                      marketAnalysis))

\* the locals of runBacktest when the loop reaches the last ReplaySteps
\* candles with nothing opened so far
windowStart(p) ==
    /\ pc' = "loop"
    /\ i' = dataLen - ReplaySteps
    /\ close' = 10
    /\ capital' = Num(p.initialCapital)
    /\ equity' = Num(p.initialCapital)
    /\ peak' = Num(p.initialCapital)
    /\ maxDrawdown' = Zero
    /\ openPositions' = << >>
    /\ closedTrades' = << >>
    /\ equityCurve' = flatCurve(<< 216, 240, 264, 288 >>, Num(p.initialCapital))
    /\ weights' = updateWeights(weights, p.strategy)
    /\ scoringWeights' = updateWeights(weights, p.strategy)
    /\ entryCheck' = "scored"

InitTwice ==
    /\ weights = RunStrategy
    /\ scoringWeights = RunStrategy
    /\ entryCheck = "scored"
    /\ InitAux
    /\ pc = "loop"
    /\ storedCandles = 300
    /\ request = [span2 |-> 0, inRange |-> 300]
    /\ params \in ThrowingParams
    /\ dataSource = "stored"
    /\ dataLen = 300
    /\ error = NoError
    /\ i = 300 - ReplaySteps
    /\ close = 10
    /\ capital = Num(params.initialCapital)
    /\ equity = Num(params.initialCapital)
    /\ peak = Num(params.initialCapital)
    /\ maxDrawdown = Zero
    /\ openPositions = << >>
    /\ closedTrades = << >>
    /\ equityCurve = flatCurve(<< 216, 240, 264, 288 >>, Num(params.initialCapital))
    /\ stats = ZeroStats
    /\ savedResults = 0

\* one candle of either run
StepTwice(c, scores, hit, tradingSignal, threw) ==
    LET k == Len(trace) + 1
        marketAnalysis == analyzeMarket(analysisCache, c, hit)
        marketSignal == scoringPipeline(scores, weights, marketAnalysis)
    IN  /\ pc = "loop"
        /\ i >= dataLen - ReplaySteps
        /\ i < dataLen
        \* the second run is given the candles of the first
        /\ firstRun.ran =>
              /\ c = firstRun.trace[k].close
              /\ scores = firstRun.trace[k].scores
              /\ (firstRun.trace[k].scored
                    /\ marketSignal = firstRun.trace[k].marketSignal) =>
                    /\ tradingSignal = firstRun.trace[k].tradingSignal
                    /\ threw = firstRun.trace[k].threw
        /\ processCandle(c, tradingSignal, threw, ReplaySteps)
        /\ trace' = Append(trace,
                           [close |-> c, scores |-> scores,
                            scored |-> entryCheck' # "skipped",
                            marketAnalysis |-> IF entryCheck' # "skipped"
                                               THEN marketAnalysis ELSE "none",
                            marketSignal |-> IF entryCheck' # "skipped"
                                             THEN marketSignal ELSE NoMarketSignal,
                            tradingSignal |-> tradingSignal, threw |-> threw])
        /\ analysisCache' = IF entryCheck' # "skipped" /\ marketAnalysis = "fresh"
                            THEN analysisCache \cup {c} ELSE analysisCache
        /\ UNCHANGED << lastCall, firstRun, liveVars >>

\* a run with another strategy on the engine between the two
EarlierRun(q) ==
    /\ pc = "done"
    /\ ~firstRun.ran
    /\ weights' = updateWeights(weights, q.strategy)
    /\ UNCHANGED runVars
    /\ UNCHANGED auxVars

\* runBacktest called again with the same parameters
RunAgain ==
    /\ pc = "done"
    /\ ~firstRun.ran
    /\ firstRun' = [trace |-> trace, closedTrades |-> closedTrades,
                    stats |-> stats, ran |-> TRUE]
    /\ trace' = << >>
    /\ windowStart(params)
    /\ UNCHANGED << storedCandles, request, params, dataSource, dataLen,
                    error, stats, savedResults, lastCall, analysisCache,
                    liveVars >>

NextTwice ==
    \/ \E c \in TwicePrices, scores \in TwiceScores, hit \in BOOLEAN,
          tradingSignal \in TwiceSignals, threw \in BOOLEAN :
             StepTwice(c, scores, hit, tradingSignal, threw)
    \/ Finish
    \/ \E q \in OtherParams : EarlierRun(q)
    \/ RunAgain

SpecTwice == InitTwice /\ [][NextTwice]_vars

(***************************************************************************)
(* calculateRSI on its own, applied to price series built from a start     *)
(* price and two runs of deltas, and to every series of up to three        *)
(* prices.                                                                 *)
(***************************************************************************)
RSI_PERIOD == 14

\* the x-th delta of a run of deltas
deltaOf(pattern, x) ==
    CASE pattern = "up" -> 1
      [] pattern = "down" -> -1
      [] pattern = "flat" -> 0
      [] pattern = "zig" -> (IF x % 2 = 1 THEN 1 ELSE -1)
      [] pattern = "zag" -> (IF x % 2 = 1 THEN -1 ELSE 2)

RECURSIVE extend(_, _, _)
\* prices followed by n more, one per delta of the pattern
extend(prices, pattern, n) ==
    IF n = 0 THEN prices
    ELSE LET sofar == extend(prices, pattern, n - 1)
         IN  Append(sofar, sofar[Len(sofar)] + deltaOf(pattern, n))

PriceSeries ==
    { extend(extend(<< start >>, head, RSI_PERIOD), tail, n) :
        start \in {50, 60},
        head \in {"up", "down", "flat", "zig", "zag"},
        tail \in {"up", "down", "flat", "zig", "zag"},
        n \in {0, 1, RSI_PERIOD} }
    \cup UNION { [1..n -> {1, 2}] : n \in 0..3 }

RECURSIVE sumGains(_, _, _)
\* the loop of calculateRSI from index from to index to (0-based)
sumGains(prices, from, to) ==
    IF from > to THEN [gains |-> 0, losses |-> 0]
    ELSE LET rest == sumGains(prices, from, to - 1)
             change == prices[to + 1] - prices[to]
         IN  IF change > 0
             THEN [rest EXCEPT !.gains = rest.gains + change]
             ELSE [rest EXCEPT !.losses = rest.losses + AbsInt(change)]

\* calculateRSI: the deltas prices[1] - prices[0] .. prices[period] -
\* prices[period - 1]
calculateRSI(prices) ==
    LET period == IF RSI_PERIOD < Len(prices) - 1 THEN RSI_PERIOD
                  ELSE Len(prices) - 1
        sums == sumGains(prices, 1, period)
        avgGain == Rat(sums.gains, period)
        avgLoss == Rat(sums.losses, period)
        rs == FDiv(avgGain, avgLoss)
    IN  IF period < 2 THEN Num(50)
        ELSE IF avgLoss = Zero THEN Num(100)
        ELSE FSub(Num(100), FDiv(Num(100), FAdd(Num(1), rs)))

RSI(prices) ==
    /\ lastCall' = [fn |-> "calculateRSI", prices |-> prices,
                    rsi |-> calculateRSI(prices)]
    /\ UNCHANGED weights
    /\ UNCHANGED << replayVars, liveVars >>
    /\ UNCHANGED runVars

NextRSI == \E prices \in PriceSeries : RSI(prices)

SpecRSI == InitScore /\ [][NextRSI]_vars

(***************************************************************************)
(* The TradeExecutionEngine with several of its calls in flight.  A call   *)
(* runs from one await to the next in one step; storage is MemStorage,     *)
(* whose methods do their work when they are called and resolve later.     *)
(* updateRiskSettings, setActive and loadOpenPositions are not called:     *)
(* maxPositions stays as constructed.                                      *)
(***************************************************************************)
MaxTrades == 4

TotalCapital == 10000

RiskPerTrade == 2

\* the floor of a position's notional value
MinPositionValue == 10

\* signals with and without a stop-loss
LiveSignals ==
    { [signalType |-> "LONG", stopLoss |-> 9, takeProfit |-> 12],
      [signalType |-> "LONG", stopLoss |-> 0, takeProfit |-> 12] }

\* prices at which a LONG trade from LiveSignals hits its stop or neither
\* level; positions are entered at 10 and closed by hand at 13
LivePrices == {8, 10}

\* TradeExecutionEngine.calculatePositionSize
calculateLivePositionSize(entryPrice, stopLoss) ==
    LET riskAmount == FMul(Num(TotalCapital), Rat(RiskPerTrade, 100))
        riskPerUnit == AbsInt(entryPrice - stopLoss)
        positionSize == FDiv(riskAmount, Num(riskPerUnit))
        minPositionSize == Rat(MinPositionValue, entryPrice)
    IN  IF stopLoss = 0 THEN Zero
        ELSE IF riskPerUnit = 0 THEN Zero
        ELSE IF FGt(positionSize, minPositionSize) THEN positionSize
        ELSE minPositionSize

\* MemStorage.insertTrade: the id is the next one, the status "OPEN".
\* closes counts the updates that set the status to "CLOSED".
insertTrade(trades, tradeData) ==
    Append(trades, [tradeData EXCEPT !.status = "OPEN"])

\* closePosition up to its await on storage.updateTrade(tradeId,
\* { exitPrice, exitTime, status: "CLOSED", pnl: finalPnL })
closePositionStart(ids, trades, tradeId, exitPrice) ==
    IF tradeId \notin Range(ids)
    THEN [found |-> FALSE, trades |-> trades]
    ELSE [found |-> TRUE,
          trades |-> [trades EXCEPT
                         ![tradeId].exitPrice = exitPrice,
                         ![tradeId].status = "CLOSED",
                         ![tradeId].pnl =
                             calculateFinalPnL(trades[tradeId], exitPrice),
                         ![tradeId].closes = @ + 1]]

Returned(fn, success, message) ==
    [fn |-> fn, at |-> "returned", success |-> success, error |-> message]

CanCall(c) == inFlight[c].at \in {"idle", "returned"}

executeSignal(c, signal, currentPrice) ==
    LET positionSize == calculateLivePositionSize(currentPrice, signal.stopLoss)
        tradeData == [side |-> signal.signalType, entryPrice |-> currentPrice,
                      quantity |-> positionSize, status |-> "OPEN",
                      stopLoss |-> signal.stopLoss,
                      takeProfit |-> signal.takeProfit,
                      pnl |-> Zero, exitPrice |-> 0, closes |-> 0]
    IN  /\ CanCall(c)
        /\ Len(storedTrades) < MaxTrades
        /\ IF Len(positionManager.openPositions) >= positionManager.maxPositions
           THEN /\ inFlight' = [inFlight EXCEPT ![c] =
                      Returned("executeSignal", FALSE,
                               "Maximum position limit reached")]
                /\ UNCHANGED storedTrades
           ELSE IF FLe(positionSize, Zero)
           THEN /\ inFlight' = [inFlight EXCEPT ![c] =
                      Returned("executeSignal", FALSE,
                               "Position size too small or invalid risk parameters")]
                /\ UNCHANGED storedTrades
           ELSE /\ storedTrades' = insertTrade(storedTrades, tradeData)
                /\ inFlight' = [inFlight EXCEPT ![c] =
                      [fn |-> "executeSignal", at |-> "insertTrade",
                       tradeId |-> Len(storedTrades) + 1]]
        /\ UNCHANGED positionManager

\* executeSignal after its await: the trade is added to openPositions
executeSignalDone(c) ==
    /\ inFlight[c].fn = "executeSignal"
    /\ inFlight[c].at = "insertTrade"
    /\ positionManager' =
          [positionManager EXCEPT
              !.openPositions = Append(@, inFlight[c].tradeId)]
    /\ inFlight' = [inFlight EXCEPT ![c] = Returned("executeSignal", TRUE, "")]
    /\ UNCHANGED storedTrades

closePosition(c, tradeId, exitPrice) ==
    LET start == closePositionStart(positionManager.openPositions,
                                    storedTrades, tradeId, exitPrice)
    IN  /\ CanCall(c)
        /\ storedTrades' = start.trades
        /\ inFlight' = [inFlight EXCEPT ![c] =
              IF start.found
              THEN [fn |-> "closePosition", at |-> "closePosition",
                    tradeId |-> tradeId]
              ELSE Returned("closePosition", FALSE, "Trade not found")]
        /\ UNCHANGED positionManager

\* closePosition after its await on storage.updateTrade, called directly or
\* by a loop: the position is deleted, and storage.getTrade, which
\* MemStorage does not have, throws into the catch block
closePositionDone(c) ==
    /\ inFlight[c].at = "closePosition"
    /\ positionManager' =
          [positionManager EXCEPT
              !.openPositions =
                  SelectSeq(@, LAMBDA id : id # inFlight[c].tradeId)]
    /\ inFlight' = [inFlight EXCEPT ![c] =
          IF inFlight[c].fn = "closePosition"
          THEN Returned("closePosition", FALSE, "Failed to close position")
          ELSE [inFlight[c] EXCEPT !.at = "loop"]]
    /\ UNCHANGED storedTrades

\* one turn of the loop of updatePositions, up to its await: the Map's
\* iterator gives the first position not visited yet
updatePositionsTurn(c, call) ==
    LET rest == SelectSeq(positionManager.openPositions,
                          LAMBDA id : id \notin call.visited)
        tradeId == rest[1]
        trade == storedTrades[tradeId]
        pnlUpdate == calculatePnL(trade, call.currentPrice)
        next == [call EXCEPT !.visited = @ \cup {tradeId}]
    IN  IF rest = << >>
        THEN /\ inFlight' = [inFlight EXCEPT ![c] =
                    Returned("updatePositions", TRUE, "")]
             /\ UNCHANGED storedTrades
        ELSE IF pnlUpdate.shouldClose
        THEN /\ storedTrades' =
                    closePositionStart(positionManager.openPositions,
                                       storedTrades, tradeId,
                                       call.currentPrice).trades
             /\ inFlight' = [inFlight EXCEPT ![c] =
                    [next EXCEPT !.at = "closePosition", !.tradeId = tradeId]]
        ELSE /\ storedTrades' = [storedTrades EXCEPT
                    ![tradeId].pnl = pnlUpdate.unrealizedPnL]
             /\ inFlight' = [inFlight EXCEPT ![c] =
                    [next EXCEPT !.at = "loop", !.tradeId = tradeId]]

updatePositionsCall(c, currentPrice) ==
    /\ CanCall(c)
    /\ updatePositionsTurn(c, [fn |-> "updatePositions", at |-> "loop",
                               currentPrice |-> currentPrice,
                               visited |-> {}, tradeId |-> 0])
    /\ UNCHANGED positionManager

updatePositionsNext(c) ==
    /\ inFlight[c].fn = "updatePositions"
    /\ inFlight[c].at = "loop"
    /\ updatePositionsTurn(c, inFlight[c])
    /\ UNCHANGED positionManager

\* one turn of the loop of closeAllPositions over its copy of the keys
closeAllPositionsTurn(c, call) ==
    LET tradeId == call.positionIds[1]
        start == closePositionStart(positionManager.openPositions,
                                    storedTrades, tradeId, call.currentPrice)
        next == [call EXCEPT !.positionIds = Tail(@), !.tradeId = tradeId]
    IN  IF call.positionIds = << >>
        THEN /\ inFlight' = [inFlight EXCEPT ![c] =
                    Returned("closeAllPositions", TRUE, "")]
             /\ UNCHANGED storedTrades
        ELSE /\ storedTrades' = start.trades
             /\ inFlight' = [inFlight EXCEPT ![c] =
                    [next EXCEPT !.at = IF start.found THEN "closePosition"
                                        ELSE "loop"]]

closeAllPositions(c, currentPrice) ==
    /\ CanCall(c)
    /\ closeAllPositionsTurn(c, [fn |-> "closeAllPositions", at |-> "loop",
                                 currentPrice |-> currentPrice,
                                 positionIds |-> positionManager.openPositions,
                                 tradeId |-> 0])
    /\ UNCHANGED positionManager

closeAllPositionsNext(c) ==
    /\ inFlight[c].fn = "closeAllPositions"
    /\ inFlight[c].at = "loop"
    /\ closeAllPositionsTurn(c, inFlight[c])
    /\ UNCHANGED positionManager

\* the engine's calls touch nothing but the engine and its storage
EngineOnly ==
    /\ UNCHANGED << weights, lastCall, hook >>
    /\ UNCHANGED replayVars
    /\ UNCHANGED runVars

\* executeSignal calls in flight, and positions closed by hand
NextExecution ==
    \E c \in 1..MaxInFlight :
        \/ \E signal \in LiveSignals, currentPrice \in {10} :
              executeSignal(c, signal, currentPrice) /\ EngineOnly
        \/ executeSignalDone(c) /\ EngineOnly
        \/ \E tradeId \in 1..MaxTrades, exitPrice \in {13} :
              closePosition(c, tradeId, exitPrice) /\ EngineOnly
        \/ closePositionDone(c) /\ EngineOnly

SpecExecution == InitScore /\ [][NextExecution]_vars

\* trades opened while the closing calls are in flight
MaxClosingTrades == 2

\* updatePositions, closePosition and closeAllPositions in flight
NextClosing ==
    \E c \in 1..MaxInFlight :
        \/ \E signal \in LiveSignals, currentPrice \in {10} :
              /\ Len(storedTrades) < MaxClosingTrades
              /\ executeSignal(c, signal, currentPrice) /\ EngineOnly
        \/ executeSignalDone(c) /\ EngineOnly
        \/ \E tradeId \in 1..(MaxClosingTrades + 1), exitPrice \in {13} :
              closePosition(c, tradeId, exitPrice) /\ EngineOnly
        \/ closePositionDone(c) /\ EngineOnly
        \/ \E currentPrice \in LivePrices :
              updatePositionsCall(c, currentPrice) /\ EngineOnly
        \/ updatePositionsNext(c) /\ EngineOnly
        \/ \E currentPrice \in {13} :
              closeAllPositions(c, currentPrice) /\ EngineOnly
        \/ closeAllPositionsNext(c) /\ EngineOnly

SpecClosing == InitScore /\ [][NextClosing]_vars

(***************************************************************************)
(* The useWebSocket hook, in both versions the file holds: version 1 is    *)
(* lines 23-161, version 2 lines 184-311.  hook.sockets are the WebSocket  *)
(* objects created so far with their handlers attached, hook.ws is         *)
(* ws.current (0 for null), hook.timers the reconnect timers pending.      *)
(* hook.disconnected and hook.attempts record history: that disconnect()   *)
(* ran, and the reconnections started since a connection last opened.      *)
(***************************************************************************)
maxReconnectAttempts == 5

\* WebSocket objects one mounted hook may create
MaxSockets == 8

\* clean close, and the code of a connection that failed or was lost
CloseCodes == {1000, 1006}

\* connect(): version 2 returns when ws.current is open, else a new
\* WebSocket is created and assigned to ws.current
connect(h) ==
    IF h.version = 2 /\ h.ws # 0 /\ h.sockets[h.ws].readyState = "OPEN"
    THEN h
    ELSE [h EXCEPT !.sockets = Append(@, [readyState |-> "CONNECTING",
                                          codes |-> {1006}]),
                   !.ws = Len(h.sockets) + 1]

\* ws.current.onclose: version 1 reconnects after any close, version 2
\* after a close whose code is not 1000, and counts the attempt here
onclose(h, code) ==
    IF /\ h.version = 2 => code # 1000
       /\ h.reconnectAttempts < maxReconnectAttempts
    THEN \* setTimeout(...) assigned to the timeout ref
         [h EXCEPT !.reconnectAttempts = IF h.version = 2 THEN @ + 1 ELSE @,
                   !.timersSet = @ + 1,
                   !.timers = @ \cup {h.timersSet + 1},
                   !.reconnectTimeout = h.timersSet + 1]
    ELSE h

\* the codes the close event of a socket may carry once close() was called
\* on it: a connection not yet established fails, an open one is closed
\* cleanly or lost
closeSocket(socket) ==
    IF socket.readyState = "CONNECTING"
    THEN [readyState |-> "CLOSING", codes |-> {1006}]
    ELSE IF socket.readyState = "OPEN"
    THEN [readyState |-> "CLOSING", codes |-> CloseCodes]
    ELSE socket

\* disconnect(): the timer in the ref is cleared; version 1 closes
\* ws.current if it is open, version 2 closes it in any state and sets
\* ws.current to null
disconnect(h) ==
    LET cleared == [h EXCEPT !.timers = @ \ {h.reconnectTimeout},
                             !.reconnectTimeout = 0,
                             !.disconnected = TRUE]
    IN  IF h.ws = 0 THEN cleared
        ELSE IF h.version = 1
        THEN IF h.sockets[h.ws].readyState = "OPEN"
             THEN [cleared EXCEPT !.sockets[h.ws] = closeSocket(@)]
             ELSE cleared
        ELSE [cleared EXCEPT !.sockets[h.ws] = closeSocket(@), !.ws = 0]

HookOnly ==
    /\ UNCHANGED << weights, lastCall, positionManager, storedTrades, inFlight >>
    /\ UNCHANGED replayVars
    /\ UNCHANGED runVars

\* the component mounts: the effect calls connect()
Mount(version) ==
    /\ hook.version = 0
    /\ hook' = connect([hook EXCEPT !.version = version])
    /\ HookOnly

\* the open event of a socket
OnOpen(x) ==
    /\ hook.sockets[x].readyState = "CONNECTING"
    /\ hook' = [hook EXCEPT !.sockets[x] = [readyState |-> "OPEN",
                                            codes |-> CloseCodes],
                            !.reconnectAttempts = 0,
                            !.attempts = 0]
    /\ HookOnly

\* the close event of a socket: the connection failed, the server closed
\* it, it was lost, or close() was called on it
OnClose(x, code) ==
    /\ hook.sockets[x].readyState # "CLOSED"
    /\ code \in hook.sockets[x].codes
    /\ hook' = onclose([hook EXCEPT !.sockets[x] = [readyState |-> "CLOSED",
                                                    codes |-> {}]], code)
    /\ HookOnly

\* a reconnect timer fires: version 1 counts the attempt here
ReconnectTimer(t) ==
    LET counted == [hook EXCEPT !.timers = @ \ {t},
                                !.reconnectAttempts =
                                   IF hook.version = 1 THEN @ + 1 ELSE @]
        connected == connect(counted)
    IN  /\ t \in hook.timers
        /\ Len(hook.sockets) < MaxSockets
        /\ hook' = [connected EXCEPT !.attempts =
                       IF Len(connected.sockets) > Len(hook.sockets)
                       THEN @ + 1 ELSE @]
        /\ HookOnly

\* the component unmounts: the effect's cleanup calls disconnect()
Unmount ==
    /\ hook.version # 0
    /\ ~hook.disconnected
    /\ hook' = disconnect(hook)
    /\ HookOnly

NextHook ==
    \/ \E version \in {1, 2} : Mount(version)
    \/ \E x \in 1..Len(hook.sockets) : OnOpen(x)
    \/ \E x \in 1..Len(hook.sockets), code \in CloseCodes : OnClose(x, code)
    \/ \E t \in hook.timers : ReconnectTimer(t)
    \/ Unmount

SpecHook == InitScore /\ [][NextHook]_vars

(***************************************************************************)
(* Properties                                                              *)
(***************************************************************************)
\* the trades of ts that close the position entered at time t
tradesOf(ts, t) == { x \in 1..Len(ts) : ts[x].entryTime = t }

\* a candle was processed: i is its index, the primed state is the result
CandleStep == pc = "loop" /\ i' = i + 1

\* a position entered on a candle found a free slot after the candle's exits
C1_EntryOnlyWithRoom ==
    CandleStep =>
        \A position \in Range(openPositions') :
            position.entryTime = i =>
                Cardinality({ q \in Range(openPositions') : q.entryTime # i })
                    < params.maxPositions

\* C1: the number of open positions never exceeds maxPositions, and a candle
\* opens a position only if, after that candle's exits, fewer than
\* maxPositions positions were open; a signal arriving while the slots are
\* full opens nothing.
C1_MaxPositions ==
    /\ [](Len(openPositions) <= params.maxPositions)
    /\ [][C1_EntryOnlyWithRoom]_vars

\* two positions fill maxPositions = 2 and a later candle left them alone
C1_Witness ==
    /\ pc = "loop"
    /\ params.maxPositions = 2
    /\ Len(openPositions) = 2
    /\ \A position \in Range(openPositions) : position.entryTime < i - 1

ExitReasons == {"TAKE_PROFIT", "STOP_LOSS", "END_OF_DATA"}

\* ts is xs followed by further elements
IsPrefix(xs, ts) == Len(xs) <= Len(ts) /\ SubSeq(ts, 1, Len(xs)) = xs

C2_Lifecycle ==
    /\ \A x \in 1..Len(closedTrades) : closedTrades[x].reason \in ExitReasons
    \* closed once: no two trades for one position
    /\ \A x, y \in 1..Len(closedTrades) :
          closedTrades[x].entryTime = closedTrades[y].entryTime => x = y
    \* removed when closed, never reopened
    /\ pc = "loop" =>
          \A position \in Range(openPositions) :
              tradesOf(closedTrades, position.entryTime) = {}

C2_Transition ==
    \* a trade is never changed or dropped once appended
    /\ IsPrefix(closedTrades, closedTrades')
    \* a position stays open or is closed by exactly one trade
    /\ \A position \in Range(openPositions) :
          \/ pc' = "loop" /\ position \in Range(openPositions')
          \/ /\ Cardinality(tradesOf(closedTrades', position.entryTime)) = 1
             /\ pc' = "loop" => position \notin Range(openPositions')
    \* every new trade closes a position that was open, or one opened and
    \* never seen open (none: a position is not closed on its entry candle)
    /\ \A x \in (Len(closedTrades) + 1)..Len(closedTrades') :
          \E position \in Range(openPositions) :
              /\ closedTrades'[x].entryTime = position.entryTime
              /\ closedTrades'[x].side = position.side
              /\ closedTrades'[x].quantity = position.quantity
              /\ closedTrades'[x].entryPrice = position.entryPrice
    \* the run ends with a trade for every position it still holds
    /\ pc' = "done" =>
          \A position \in Range(openPositions') :
              Cardinality(tradesOf(closedTrades', position.entryTime)) = 1

C3_EndOfDataClose ==
    pc = "done" =>
        /\ \A position \in Range(openPositions) :
              /\ Cardinality(tradesOf(closedTrades, position.entryTime)) = 1
              /\ \A x \in tradesOf(closedTrades, position.entryTime) :
                    /\ closedTrades[x].reason = "END_OF_DATA"
                    /\ closedTrades[x].exitTime = dataLen - 1
                    /\ closedTrades[x].exitPrice = close
                    /\ closedTrades[x].side = position.side
                    /\ closedTrades[x].quantity = position.quantity
        /\ \A x \in 1..Len(closedTrades) :
              closedTrades[x].reason = "END_OF_DATA" =>
                  \E position \in Range(openPositions) :
                      position.entryTime = closedTrades[x].entryTime

\* a finished run that held two positions at the final candle, entered on
\* two earlier candles
C3_Witness ==
    /\ pc = "done"
    /\ Len(openPositions) = 2
    /\ \A position \in Range(openPositions) : position.entryTime < dataLen - 1

\* (exit - entry) x quantity for a Long, (entry - exit) x quantity for a Short
pnlFormula(side, entryPrice, exitPrice, quantity) ==
    IF side = "LONG"
    THEN FMul(Num(exitPrice - entryPrice), quantity)
    ELSE FMul(Num(entryPrice - exitPrice), quantity)

\* the exit the rule prescribes for a position against a close
expectedExit(position, currentClose) ==
    IF position.side = "LONG"
    THEN IF currentClose <= position.stopLoss THEN "STOP_LOSS"
         ELSE IF currentClose >= position.takeProfit THEN "TAKE_PROFIT"
         ELSE "NONE"
    ELSE IF currentClose >= position.stopLoss THEN "STOP_LOSS"
         ELSE IF currentClose <= position.takeProfit THEN "TAKE_PROFIT"
         ELSE "NONE"

exitLevel(position, reason) ==
    IF reason = "STOP_LOSS" THEN position.stopLoss ELSE position.takeProfit

C4_ExitStep ==
    CandleStep =>
        \A position \in Range(openPositions) :
            LET reason == expectedExit(position, close')
                closing == tradesOf(closedTrades', position.entryTime)
            IN  IF reason = "NONE"
                THEN /\ position \in Range(openPositions')
                     /\ closing = {}
                ELSE /\ position \notin Range(openPositions')
                     /\ Cardinality(closing) = 1
                     /\ \A x \in closing :
                          /\ closedTrades'[x].reason = reason
                          /\ closedTrades'[x].exitPrice = exitLevel(position, reason)
                          /\ closedTrades'[x].exitTime = i
                          /\ closedTrades'[x].pnl =
                               pnlFormula(position.side, position.entryPrice,
                                          exitLevel(position, reason),
                                          position.quantity)

\* C4: the exit check closes a Long at its stop-loss when close <= stop_loss,
\* otherwise at its take-profit when close >= take_profit, otherwise not at
\* all (a Short mirrored), and the recorded exit price and pnl are those of
\* the level, not of the candle's close.
C4_ExitCheck == [][C4_ExitStep]_vars

\* the Long opened at 100 with stop-loss 98 and take-profit 106 after a
\* candle closing at 107: closed at 106, pnl 6 x quantity, TAKE_PROFIT
C4_Witness ==
    /\ pc = "loop"
    /\ close = 107
    /\ openPositions = << >>
    /\ Len(closedTrades) = 1
    /\ closedTrades[1].side = "LONG"
    /\ closedTrades[1].entryPrice = 100
    /\ closedTrades[1].exitPrice = 106
    /\ closedTrades[1].reason = "TAKE_PROFIT"
    /\ closedTrades[1].quantity = Rat(5, 2)
    /\ closedTrades[1].pnl = Num(15)

\* C5: every closed trade's pnl is (exit - entry) x quantity for a Long and
\* (entry - exit) x quantity for a Short at the exit price recorded on the
\* trade, and an open position's unrealized pnl is the same formula at the
\* current close.
C5_PnlFormula ==
    /\ \A x \in 1..Len(closedTrades) :
          closedTrades[x].pnl =
              pnlFormula(closedTrades[x].side, closedTrades[x].entryPrice,
                         closedTrades[x].exitPrice, closedTrades[x].quantity)
    /\ pc = "loop" =>
          \A position \in Range(openPositions) :
              \A currentPrice \in Prices \cup {close} :
                  calculatePositionPnL(position, currentPrice) =
                      pnlFormula(position.side, position.entryPrice,
                                 currentPrice, position.quantity)
    /\ (pc = "loop" /\ Len(openPositions) = 1) =>
          calculateUnrealizedPnL(openPositions, close) =
              pnlFormula(openPositions[1].side, openPositions[1].entryPrice,
                         close, openPositions[1].quantity)

\* a finished run with a Short closed at the end of the data away from its
\* entry price and another trade closed at a level
C5_Witness ==
    /\ pc = "done"
    /\ \E x, y \in 1..Len(closedTrades) :
          /\ closedTrades[x].side = "SHORT"
          /\ closedTrades[x].reason = "END_OF_DATA"
          /\ closedTrades[x].exitPrice # closedTrades[x].entryPrice
          /\ closedTrades[y].reason \in {"STOP_LOSS", "TAKE_PROFIT"}

\* sum of the pnl of a list of trades
RECURSIVE sumPnl(_)
sumPnl(trades) ==
    IF Len(trades) = 0 THEN Zero
    ELSE FAdd(sumPnl(SubSeq(trades, 1, Len(trades) - 1)),
              trades[Len(trades)].pnl)

\* sum of the pnl formula over the open positions at a close
RECURSIVE sumOpenPnl(_, _)
sumOpenPnl(positions, currentClose) ==
    IF Len(positions) = 0 THEN Zero
    ELSE FAdd(sumOpenPnl(SubSeq(positions, 1, Len(positions) - 1), currentClose),
              pnlFormula(positions[Len(positions)].side,
                         positions[Len(positions)].entryPrice,
                         currentClose, positions[Len(positions)].quantity))

\* the sample taken on the candle just processed
SampledLastCandle ==
    /\ Len(equityCurve) > 0
    /\ equityCurve[Len(equityCurve)].time = i - 1

C6_SampleEquity ==
    /\ (pc = "loop" /\ SampledLastCandle) =>
          equityCurve[Len(equityCurve)].equity =
              FAdd(FAdd(Num(params.initialCapital), sumPnl(closedTrades)),
                   sumOpenPnl(openPositions, close))
    \* after the run: the positions of the last sample are its last trades
    /\ (pc = "done" /\ SampledLastCandle) =>
          equityCurve[Len(equityCurve)].equity =
              FAdd(Num(params.initialCapital), sumPnl(closedTrades))

\* C6: the equity of every equity-curve sample is the initial capital plus
\* the pnl of the trades closed up to and including the sampled candle plus
\* the unrealized pnl, at that candle's close, of the positions open after the
\* candle's exits and entries; a sample is never changed afterwards.
C6_EquityReproducible ==
    []C6_SampleEquity /\ [][IsPrefix(equityCurve, equityCurve')]_vars

\* a sample taken with one trade closed at a loss or gain and a position
\* open away from its entry price
C6_Witness ==
    /\ pc = "loop"
    /\ SampledLastCandle
    /\ Len(closedTrades) > 0
    /\ sumPnl(closedTrades) # Zero
    /\ Len(openPositions) > 0
    /\ sumOpenPnl(openPositions, close) # Zero

\* the largest drawdown fraction over the samples of a curve
largestDrawdown(curve) ==
    MathMax([x \in 1..Len(curve) |-> curve[x].drawdown])

C7_Drawdown ==
    /\ \A x \in 1..Len(equityCurve) : FGe(equityCurve[x].drawdown, Zero)
    /\ (pc = "loop" /\ SampledLastCandle) =>
          equityCurve[Len(equityCurve)].drawdown =
              FDiv(FSub(peak, equityCurve[Len(equityCurve)].equity), peak)
    /\ pc = "done" =>
          /\ FGe(stats.maxDrawdown, Zero)
          /\ Len(equityCurve) > 0 =>
                stats.maxDrawdown = FMul(Num(100), largestDrawdown(equityCurve))

AllZero(st) ==
    /\ st.totalTrades = 0
    /\ st.winningTrades = 0
    /\ st.losingTrades = 0
    /\ \A f \in {"winRate", "avgWin", "avgLoss", "profitFactor", "sharpeRatio",
                 "maxDrawdown", "totalReturn", "calmarRatio",
                 "averageHoldingPeriod"} : st[f] = [k |-> "fin", n |-> 0, d |-> 1]

\* C8: a backtest that closes zero trades returns the all-zero statistics
\* record, every field exactly 0 and none NaN or infinite, whatever the
\* equity curve contains.
C8_ZeroTrades == (pc = "done" /\ Len(closedTrades) = 0) => AllZero(stats)

\* no trade, yet a curve of several samples that moves and has a drawdown
C8_Witness ==
    /\ pc = "done"
    /\ Len(closedTrades) = 0
    /\ Len(equityCurve) >= 2
    /\ \E x, y \in 1..Len(equityCurve) :
          /\ equityCurve[x].equity # equityCurve[y].equity
          /\ FGt(equityCurve[x].drawdown, Zero)
    /\ AllZero(stats)

\* the per-sample return between sample x and sample x + 1
sampleReturn(curve, x) ==
    FDiv(FSub(curve[x + 1].equity, curve[x].equity), curve[x].equity)

\* no spread in the returns: none at all, or all equal
NoReturnSpread(curve) ==
    \A x, y \in 1..(Len(curve) - 1) : sampleReturn(curve, x) = sampleReturn(curve, y)

C9_RatioFields ==
    {"winRate", "avgWin", "avgLoss", "profitFactor", "sharpeRatio",
     "totalReturn", "calmarRatio", "averageHoldingPeriod"}

\* C9: for a non-empty list of closed trades and any equity curve, one of
\* zero or one sample included, no ratio statistic is NaN or infinite, and
\* profit_factor is 0 when no trade lost, sharpe_ratio is 0 when the
\* per-sample returns have no spread or there are none, calmar_ratio is 0
\* when max_drawdown is not positive.
C9_GuardedRatios ==
    (pc = "done" /\ Len(closedTrades) > 0) =>
        /\ \A f \in C9_RatioFields : IsFinite(stats[f])
        /\ (\A x \in 1..Len(closedTrades) : ~FLt(closedTrades[x].pnl, Zero)) =>
              stats.profitFactor = Zero
        /\ NoReturnSpread(equityCurve) => stats.sharpeRatio = Zero
        /\ (\A x \in 1..Len(equityCurve) : equityCurve[x].drawdown = Zero) =>
              stats.calmarRatio = Zero
        /\ ~FGt(stats.maxDrawdown, Zero) => stats.calmarRatio = Zero

\* winning trades only, one sample, no drawdown: the three denominators are
\* all zero
C9_Witness ==
    /\ pc = "done"
    /\ Len(closedTrades) = MaxStatTrades
    /\ \A x \in 1..Len(closedTrades) : FGt(closedTrades[x].pnl, Zero)
    /\ Len(equityCurve) = 1
    /\ equityCurve[1].drawdown = Zero
    /\ stats.profitFactor = Zero
    /\ stats.sharpeRatio = Zero
    /\ stats.calmarRatio = Zero

\* the minimum the run needs: the indicator lookback plus the bars of the
\* requested trading period
requiredCandles == LookBack + periodCountOf(request.span2)

\* C10: when fewer candles than the 200 of the lookback plus the bars of the
\* requested period are available, runBacktest fails with an error reporting
\* the required and the available counts, stores no result and never runs on
\* synthetic candles.
C10_FailFast ==
    (pc # "idle" /\ request.inRange < requiredCandles) =>
        /\ pc = "failed"
        /\ error.required = requiredCandles
        /\ error.available = request.inRange
        /\ dataSource # "synthetic"
        /\ savedResults = 0

\* the positions of a list whose exit check fires at a close, and the others
exiting(positions, currentClose) ==
    { x \in 1..Len(positions) : expectedExit(positions[x], currentClose) # "NONE" }

surviving(positions, currentClose) ==
    { positions[x] : x \in (1..Len(positions)) \ exiting(positions, currentClose) }

\* the positions entered on the candle just processed
enteredAt(positions, t) == { position \in Range(positions) : position.entryTime = t }

C18_ExitsFirst ==
    CandleStep =>
        \* the exits are applied whether or not the candle enters a position
        /\ Range(openPositions') \ enteredAt(openPositions', i)
              = surviving(openPositions, close')
        \* the entry block runs exactly when the exits left a slot free
        /\ entryCheck' # "skipped" <=>
              Cardinality(surviving(openPositions, close')) < params.maxPositions
        /\ enteredAt(openPositions', i) # {} => entryCheck' = "scored"

\* C18: within a step the exit checks of all open positions are done, and the
\* closed positions removed, before an entry is considered: the entry gate
\* counts the positions left after the step's exits, and a position closed on
\* a candle frees its slot for an entry on that same candle.
C18_ExitsBeforeEntries == [][C18_ExitsFirst]_vars

\* the slots were full, a candle closed a position and opened another
C18_Witness ==
    /\ pc = "loop"
    /\ Len(openPositions) = params.maxPositions
    /\ enteredAt(openPositions, i - 1) # {}
    /\ \E x \in 1..Len(closedTrades) :
          /\ closedTrades[x].exitTime = i - 1
          /\ closedTrades[x].entryTime < i - 1
    /\ \A position \in Range(openPositions) : position.entryTime >= i - 2

\* pnl of the positions a close takes out, each at its level
RECURSIVE exitPnl(_, _)
exitPnl(positions, currentClose) ==
    IF Len(positions) = 0 THEN Zero
    ELSE LET position == positions[Len(positions)]
             reason == expectedExit(position, currentClose)
             rest == exitPnl(SubSeq(positions, 1, Len(positions) - 1), currentClose)
         IN  IF reason = "NONE" THEN rest
             ELSE FAdd(rest, pnlFormula(position.side, position.entryPrice,
                                        exitLevel(position, reason),
                                        position.quantity))

C20_CaughtStep ==
    (CandleStep /\ entryCheck' = "caught") =>
        \* no position opened, the others as the exit checks left them
        /\ enteredAt(openPositions', i) = {}
        /\ Range(openPositions') = surviving(openPositions, close')
        /\ Len(openPositions') = Cardinality(surviving(openPositions, close'))
        \* the trades and the capital as the exit checks left them
        /\ IsPrefix(closedTrades, closedTrades')
        /\ Len(closedTrades') =
              Len(closedTrades) + Cardinality(exiting(openPositions, close'))
        /\ capital' = FAdd(capital, exitPnl(openPositions, close'))
        \* the loop goes on with the next candle
        /\ pc' = "loop"
        /\ i' = i + 1
        /\ error' = NoError

C20_NotFatal ==
    /\ pc = "failed" => entryCheck = "none"
    /\ entryCheck = "caught" => pc \in {"loop", "done"} /\ error = NoError
    /\ (pc = "done" /\ entryCheck = "caught") => savedResults > 0

\* C20: when the scoring of a candle throws, the error is caught in the loop:
\* the candle opens no position, capital, the closed trades and the open
\* positions stay as the candle's exit checks left them, the loop goes on
\* with the next candle and the run ends with a result, not with a failure.
C20_StepErrorSkipped == []C20_NotFatal /\ [][C20_CaughtStep]_vars

\* a finished run whose last candle closed a position at a level and then
\* threw while scoring
C20_Witness ==
    /\ pc = "done"
    /\ entryCheck = "caught"
    /\ savedResults > 0
    /\ \E x \in 1..Len(closedTrades) :
          /\ closedTrades[x].exitTime = dataLen - 1
          /\ closedTrades[x].reason # "END_OF_DATA"

stopHit(side, stopLoss, price) ==
    IF side = "LONG" THEN price <= stopLoss ELSE price >= stopLoss

targetHit(side, takeProfit, price) ==
    IF side = "LONG" THEN price >= takeProfit ELSE price <= takeProfit

\* the backtest exit check: stop-loss first, at the stop-loss price
C19_BacktestStep ==
    CandleStep =>
        \A position \in Range(openPositions) :
            \A x \in tradesOf(closedTrades', position.entryTime) :
                /\ stopHit(position.side, position.stopLoss, close') =>
                      /\ closedTrades'[x].reason = "STOP_LOSS"
                      /\ closedTrades'[x].exitPrice = position.stopLoss
                /\ closedTrades'[x].reason = "TAKE_PROFIT" =>
                      ~stopHit(position.side, position.stopLoss, close')

\* the live update: stop-loss first
C19_LiveReason ==
    lastCall.fn = "updatePositions" =>
        /\ stopHit(lastCall.trade.side, lastCall.trade.stopLoss,
                   lastCall.currentPrice) =>
              lastCall.status = "CLOSED" /\ lastCall.reason = "STOP_LOSS"
        /\ lastCall.reason = "TAKE_PROFIT" =>
              ~stopHit(lastCall.trade.side, lastCall.trade.stopLoss,
                       lastCall.currentPrice)

\* the live update closes at the price it was called with
C19_LiveAtCurrentPrice ==
    (lastCall.fn = "updatePositions" /\ lastCall.status = "CLOSED") =>
        /\ lastCall.exitPrice = lastCall.currentPrice
        /\ lastCall.pnl = pnlFormula(lastCall.trade.side,
                                     lastCall.trade.entryPrice,
                                     lastCall.currentPrice,
                                     lastCall.trade.quantity)

\* the live update closes a stopped position at its stop-loss price
C19_LiveAtStopPrice ==
    (lastCall.fn = "updatePositions" /\ lastCall.reason = "STOP_LOSS") =>
        lastCall.exitPrice = lastCall.trade.stopLoss

\* C19 (as stated): when the stop-loss and the take-profit condition of a
\* position both hold, it is closed with reason STOP_LOSS at the stop-loss
\* price, Long and Short alike, by the backtest exit check and by the live
\* position update; TAKE_PROFIT is reported only when the stop-loss
\* condition is false.
C19_StopLossFirstAtStopPrice ==
    /\ [](C19_LiveReason /\ C19_LiveAtStopPrice)
    /\ [][C19_BacktestStep]_vars

\* C19 (amended): both paths report STOP_LOSS when both conditions hold and
\* TAKE_PROFIT only when the stop-loss condition is false; the backtest exit
\* check closes at the stop-loss price, the live position update closes at
\* the current price it was called with.
C19_StopLossFirst ==
    /\ [](C19_LiveReason /\ C19_LiveAtCurrentPrice)
    /\ [][C19_BacktestStep]_vars

\* a Long with stop-loss 106 and take-profit 98 at price 100: both conditions
\* hold, the backtest closed it at 106 and the live update at 100, both with
\* STOP_LOSS
C19_Witness ==
    /\ lastCall.fn = "updatePositions"
    /\ lastCall.trade.side = "LONG"
    /\ lastCall.trade.stopLoss = 106
    /\ lastCall.currentPrice = 100
    /\ targetHit("LONG", lastCall.trade.takeProfit, 100)
    /\ lastCall.reason = "STOP_LOSS"
    /\ lastCall.exitPrice = 100
    /\ pc = "loop"
    /\ close = 100
    /\ Len(closedTrades) = 1
    /\ closedTrades[1].side = "LONG"
    /\ closedTrades[1].reason = "STOP_LOSS"
    /\ closedTrades[1].exitPrice = 106
    /\ targetHit("LONG", 98, close)

\* C11: with fewer than 200 price points the indicator calculation and the
\* confidence scorer signal InsufficientData and hand back no result: no
\* default score, no mock indicators, no partial result.
C11_InsufficientData ==
    /\ (lastCall.fn = "calculateTechnicalIndicators" /\ lastCall.n < LookBack) =>
          lastCall.indicators.outcome = "InsufficientData"
    /\ (lastCall.fn = "calculateConfidenceScore" /\ lastCall.n < LookBack) =>
          lastCall.scored.outcome = "InsufficientData"

\* long and short confidence, in percent, of a confidence score
longConfidence(confidence) == FMul(confidence.overall, Num(100))

shortConfidence(confidence) == FSub(Num(100), longConfidence(confidence))

\* C15: a signal is Long iff long_confidence >= 65 and long_confidence >
\* short_confidence, Short iff short_confidence >= 65 and short_confidence >
\* long_confidence, and there is none when neither side reaches 65 or the
\* sides are tied; never a Long and a Short for the same score.
C15_SideSelection ==
    lastCall.fn = "generateTradingSignal" =>
        LET long == longConfidence(lastCall.confidence)
            short == shortConfidence(lastCall.confidence)
        IN  /\ lastCall.signal.direction = "LONG" <=>
                  (FGe(long, Num(EntryThreshold)) /\ FGt(long, short))
            /\ lastCall.signal.direction = "SHORT" <=>
                  (FGe(short, Num(EntryThreshold)) /\ FGt(short, long))
            /\ lastCall.signal.direction \in {"LONG", "SHORT", "NONE"}

sumOfWeights(w) == w.momentum + w.volume + w.trend + w.volatility

\* C16: for every weight vector summing to 1.0, every confidence score
\* computed or published has long_confidence + short_confidence = 100
\* exactly, with long_confidence in [0, 100].
C16_SumsTo100 ==
    (lastCall.fn = "updateCurrentConfidence" /\ sumOfWeights(lastCall.weights) = 100) =>
        /\ FAdd(lastCall.published.longConfidence,
                lastCall.published.shortConfidence) = Num(100)
        /\ FGe(lastCall.published.longConfidence, Zero)
        /\ FLe(lastCall.published.longConfidence, Num(100))

\* clamp(0, 100, x)
clampPercent(x) ==
    IF FLt(x, Zero) THEN Zero ELSE IF FGt(x, Num(100)) THEN Num(100) ELSE x

\* C17: the confidence a signal is generated from is clamp(0, 100, (momentum
\* x w_momentum + volume x w_volume + trend x w_trend + volatility x
\* w_volatility) x 100) of its own components and the active weights; no
\* other clamp or multiplier alters it between scoring and signal generation.
C17_ReproducedByComponents ==
    (lastCall.fn = "generateTradingSignal" /\ sumOfWeights(lastCall.weights) = 100) =>
        longConfidence(lastCall.confidence) =
            clampPercent(FMul(weightedSum(lastCall.scored, lastCall.weights),
                              Num(100)))

\* a valid run configuration
validConfiguration(p) ==
    /\ AbsInt(sumOfWeights(p.strategy) - 100) < 1
    /\ p.initialCapital > 0
    /\ p.riskPerTrade > 0 /\ p.riskPerTrade <= 10
    /\ p.maxPositions >= 1 /\ p.maxPositions <= 10
    /\ p.stopLossPercent > 0 /\ p.stopLossPercent <= 20
    /\ p.takeProfitPercent >= 1 /\ p.takeProfitPercent <= 50

\* C12: an invalid run configuration (weights not summing to 1.0 within
\* 0.01, initial_capital <= 0, or a bound on risk, positions, stop-loss or
\* take-profit violated) is rejected before any candle is processed, so no
\* backtest step on any entry path scores with a weight vector whose sum
\* differs from 1.0 by 0.01 or more.
C12_InvalidRejected ==
    /\ pc \in {"loop", "done"} => validConfiguration(params)
    /\ (pc # "idle" /\ ~validConfiguration(params)) => pc = "rejected" /\ i = 0
    /\ scoringWeights # NoWeights => AbsInt(sumOfWeights(scoringWeights) - 100) < 1

\* a step of the other run: this run's loop index stays where it is
OtherRunStep == pc = "loop" /\ i' = i /\ pc' = "loop"

C14_OwnState ==
    OtherRunStep =>
        /\ UNCHANGED << openPositions, closedTrades, capital, equity, peak,
                        maxDrawdown, equityCurve >>
        /\ weights' = weights

C14_OwnWeights ==
    (pc \in {"loop", "done"} /\ scoringWeights # NoWeights) =>
        scoringWeights = params.strategy

\* C14: two runs with different parameter sets interleaving on one
\* BacktestingEngine share no mutable state: each uses its own positions,
\* capital, equity and its own weight vector for every step, so each run's
\* trades and statistics are those it produces alone.
C14_NoSharedState == []C14_OwnWeights /\ [][C14_OwnState]_vars

\* C13: running the backtest twice with the same configuration against the
\* same candles yields identical closed trades and identical statistics,
\* whatever an earlier run left in the engine's weights and in the
\* market-analysis cache.
C13_SameResultTwice ==
    (pc = "done" /\ firstRun.ran) =>
        /\ closedTrades = firstRun.closedTrades
        /\ stats = firstRun.stats

\* the second run finished with a trade, having scored on a cached analysis
\* a candle the first run scored on a fresh one
C13_Witness ==
    /\ pc = "done"
    /\ firstRun.ran
    /\ Len(closedTrades) > 0
    /\ closedTrades = firstRun.closedTrades
    /\ \E k \in 1..Len(trace) :
          /\ trace[k].marketAnalysis = "cached"
          /\ firstRun.trace[k].marketAnalysis = "fresh"

\* the levels the run's percentages put around an entry price, times 100
stopLevel100(side, entryPrice, p) ==
    IF side = "LONG" THEN entryPrice * (100 - p.stopLossPercent)
    ELSE entryPrice * (100 + p.stopLossPercent)

targetLevel100(side, entryPrice, p) ==
    IF side = "LONG" THEN entryPrice * (100 + p.takeProfitPercent)
    ELSE entryPrice * (100 - p.takeProfitPercent)

sizeByRisk(cap, p, entryPrice, stopLoss) ==
    LET byRisk == FDiv(FMul(cap, Rat(p.riskPerTrade, 100)),
                       Num(AbsInt(entryPrice - stopLoss)))
        floor == Rat(MinPositionValue, entryPrice)
    IN  IF FGt(byRisk, floor) THEN byRisk ELSE floor

C22_EntryStep ==
    CandleStep =>
        \* sized at entry from the capital after the candle's exits
        /\ \A position \in enteredAt(openPositions', i) :
              /\ position.quantity =
                    sizeByRisk(capital', params, position.entryPrice,
                               position.stopLoss)
              /\ FGt(position.quantity, Zero)
        \* never resized: a position kept is kept as it is, a position closed
        \* is recorded with its quantity
        /\ \A position \in Range(openPositions) :
              \/ position \in Range(openPositions')
              \/ \E x \in tradesOf(closedTrades', position.entryTime) :
                    closedTrades'[x].quantity = position.quantity

C23_CurveStep ==
    /\ Len(equityCurve') <= Len(equityCurve) + 1
    /\ SubSeq(equityCurve', 1, Len(equityCurve)) = equityCurve
    \* a candle off the sampling period, and not the last, adds no sample
    /\ (CandleStep /\ i % SampleEvery # 0 /\ i # dataLen - 1) =>
          equityCurve' = equityCurve
    /\ ~CandleStep => equityCurve' = equityCurve

C23_CurveOrdered ==
    /\ \A x \in 1..(Len(equityCurve) - 1) :
          equityCurve[x].time < equityCurve[x + 1].time
    /\ \A x \in 1..Len(equityCurve) :
          /\ equityCurve[x].time < i
          /\ equityCurve[x].time % SampleEvery = 0
                \/ equityCurve[x].time = dataLen - 1

\* C23: the equity curve is append-only and strictly increasing in time:
\* samples are appended in candle order, each later than the one before, a
\* sample is never modified or removed, and samples are taken periodically,
\* not on every bar.
C23_CurveAppendOnly == []C23_CurveOrdered /\ [][C23_CurveStep]_vars

\* a finished run with the periodic samples and the one of the last candle,
\* closer to its predecessor than a period
C23_Witness ==
    /\ pc = "done"
    /\ Len(equityCurve) >= 5
    /\ equityCurve[Len(equityCurve)].time = dataLen - 1
    /\ equityCurve[Len(equityCurve)].time
          - equityCurve[Len(equityCurve) - 1].time < SampleEvery
    /\ equityCurve[2].time - equityCurve[1].time = SampleEvery

\* the losses among the trailing RSI_PERIOD deltas of a series
trailingLosses(prices) ==
    LET first == IF Len(prices) - RSI_PERIOD > 1 THEN Len(prices) - RSI_PERIOD
                 ELSE 1
    IN  { x \in first..(Len(prices) - 1) : prices[x + 1] < prices[x] }

\* C24: for every price series the RSI lies in [0, 100], and it is 100 if
\* and only if the average loss over the RSI window, the trailing 14 price
\* deltas, is 0.
C24_RsiRange ==
    lastCall.fn = "calculateRSI" =>
        /\ FGe(lastCall.rsi, Zero)
        /\ FLe(lastCall.rsi, Num(100))
        /\ lastCall.rsi = Num(100) <=> trailingLosses(lastCall.prices) = {}

\* C25: in a step with room for a position, whenever the trading engine
\* returns a signal for the candle and the computed size is positive, a
\* position with the signal's side is opened on that step at the candle's
\* close.
C25_SignalStep ==
    \A tradingSignal \in Signals \ {NoSignal} :
        /\ Step(close', tradingSignal, FALSE)
        /\ FGt(calculatePositionSize(capital', close', params.riskPerTrade,
                                     params.stopLossPercent), Zero)
        => \E position \in enteredAt(openPositions', i) :
              /\ position.side = tradingSignal.signalType
              /\ position.entryPrice = close'

C25_SignalOpensPosition == [][C25_SignalStep]_vars

\* C26: after every step the capital is the initial capital plus the pnl of
\* the trades closed so far; the final capital of a finished run is the
\* initial capital plus the pnl of all returned trades, END_OF_DATA ones
\* included, and the total return is (final - initial) / initial x 100.
C26_CapitalIsRealizedPnl ==
    /\ pc \in {"loop", "done"} =>
          capital = FAdd(Num(params.initialCapital), sumPnl(closedTrades))
    /\ pc = "done" =>
          stats.totalReturn =
              FMul(FDiv(FSub(capital, Num(params.initialCapital)),
                        Num(params.initialCapital)), Num(100))

C26_Witness ==
    /\ pc = "done"
    /\ \E x \in 1..Len(closedTrades) : closedTrades[x].reason = "END_OF_DATA"
    /\ \E x \in 1..Len(closedTrades) : closedTrades[x].reason # "END_OF_DATA"
    /\ capital # Num(params.initialCapital)
    /\ stats.totalReturn # Zero

\* C27: every completed run that processed at least one candle returns an
\* equity curve with a sample for the final candle whose equity is the final
\* capital after the END_OF_DATA close, also when steps were skipped by a
\* scoring error.
C27_FinalCandleSampled ==
    (pc = "done" /\ i > LookBack) =>
        \E x \in 1..Len(equityCurve) :
            /\ equityCurve[x].time = dataLen - 1
            /\ equityCurve[x].equity = capital

\* C28: the number of entries in openPositions never exceeds maxPositions,
\* also when several executeSignal calls interleave at their await on
\* storage.insertTrade.
C28_WithinMaxPositions ==
    Len(positionManager.openPositions) <= positionManager.maxPositions

\* C29: each trade is set to CLOSED at most once, under any interleaving of
\* updatePositions, closePosition and closeAllPositions at their awaits.
C29_ClosedOnce ==
    \A tradeId \in 1..Len(storedTrades) : storedTrades[tradeId].closes <= 1

\* a step of the hook that creates a WebSocket
ConnectionAttempt == Len(hook'.sockets) > Len(hook.sockets)

\* a step in which a connection opens
ConnectionOpens ==
    \E x \in 1..Len(hook.sockets) :
        /\ hook.sockets[x].readyState = "CONNECTING"
        /\ hook'.sockets[x].readyState = "OPEN"

C30_HookStep ==
    \* the counter goes back to 0 only when a connection opens
    /\ (hook.reconnectAttempts > 0 /\ hook'.reconnectAttempts = 0)
          => ConnectionOpens
    \* after disconnect() no connection attempt is started
    /\ hook.disconnected => ~ConnectionAttempt

\* C30: the hook makes at most maxReconnectAttempts consecutive
\* reconnection attempts, resets the counter to 0 only when a connection
\* opens, and starts no connection attempt after disconnect().
C30_BoundedReconnect ==
    /\ [](hook.attempts <= maxReconnectAttempts)
    /\ [][C30_HookStep]_vars

====
